---- MODULE Spec2Model ----
(***************************************************************************)
(* Heads-up poker hand arbiter (Pohlig-Hellman variant): one hand, its two *)
(* players' ledger balances, the hand vault and the program vault.         *)
(*                                                                         *)
(* Every instruction handler is one action.  A handler that returns an     *)
(* error leaves the accounts as they were (the runtime discards the        *)
(* account writes of a failed instruction).  Instructions are processed    *)
(* one at a time: a handler runs when no instruction is pending, records   *)
(* the instruction and its outcome in `call` and `result`, and Return      *)
(* hands the outcome back to the submitter.                                *)
(*                                                                         *)
(* Widths.  Amounts are u64 in the source.  Every amount of the model is   *)
(* bounded by the deposits (a few hundred), so saturating_add never        *)
(* saturates and `+` never overflows; saturating_sub is modelled exactly.  *)
(* The 256-bit prime of the cipher is scaled to an 8-bit safe prime and    *)
(* the 256 rounds of modpow to 8.                                          *)
(***************************************************************************)
EXTENDS Integers, Sequences, FiniteSets, TLC

VARIABLES
    game,           \* the GameState account of the hand
    balance,        \* PlayerBalance.balance of player 1 and player 2
    game_vault,     \* tokens held by the hand's vault
    program_vault,  \* tokens held by the program vault
    now,            \* Clock::get().unix_timestamp
    credits,        \* instructions that have credited a ledger balance for the hand
    call,           \* the instruction being returned to its submitter
    result,         \* its outcome: "Ok" or the error code
    has_acted,      \* history: the players (1, 2) whose player_action has
                    \* succeeded in the betting round in progress
    probe           \* the library function being applied outside an
                    \* instruction, its arguments and its value

vars == <<game, balance, game_vault, program_vault, now, credits, call, result,
          has_acted, probe>>

(***************************************************************************)
(* Bounds of the model                                                     *)
(***************************************************************************)
MaxNow == 61                    \* the clock is followed up to this time
MaxCredits == 2                 \* credits of one hand that are followed

(***************************************************************************)
(* Identities and enumerations                                             *)
(***************************************************************************)
P1 == "P1"
P2 == "P2"
P3 == "P3"                      \* a signer that is neither player of the hand
Signers == {P1, P2, P3}
DefaultPubkey == "default"      \* Pubkey::default()
None == "None"                  \* Option::None

BettingStages ==
    {"PreFlopBetting", "PostFlopBetting", "PostTurnBetting", "PostRiverBetting"}

Player2ShareStages ==
    {"AwaitingPlayer2FlopShare", "AwaitingPlayer2TurnShare",
     "AwaitingPlayer2RiverShare"}

PlayerActionType == {"None", "Fold", "Check", "Call", "Raise", "AllIn"}

ACTION_TIMEOUT == 60

(***************************************************************************)
(* Inputs the instructions are tried with                                  *)
(***************************************************************************)
StakeAmounts == {100}
Deposit == 150                  \* each player's ledger balance at the start
RaiseAmounts == {40}
\* hands of these stakes are played with two raise amounts, to follow raises
\* below and above the amount to call
BettingStakes == {61, 81}
BettingRaiseAmounts == {20, 40}
TickSteps == {ACTION_TIMEOUT, ACTION_TIMEOUT + 1}

(***************************************************************************)
(* u64 helpers                                                             *)
(***************************************************************************)
saturating_sub(a, b) == IF a >= b THEN a - b ELSE 0

saturating_add(a, b) == a + b

(***************************************************************************)
(* Pohlig-Hellman cipher (state/game.rs).  An EncryptedCard and an         *)
(* EphemeralPubkey are modelled by the integer their big-endian bytes      *)
(* encode; the all-zero byte string is 0.                                  *)
(***************************************************************************)
PRIME == 227

KeyBits == 8

Pow2(n) == 2^n

RECURSIVE modpow_loop(_, _, _, _, _)
modpow_loop(i, acc, base_pow, exp, modulus) ==
    IF i = KeyBits THEN acc
    ELSE LET bit_is_set == ((exp \div Pow2(i)) % 2) = 1
             acc2 == IF bit_is_set THEN (acc * base_pow) % modulus ELSE acc
         IN  modpow_loop(i + 1, acc2, (base_pow * base_pow) % modulus, exp, modulus)

modpow(base, exp, modulus) == modpow_loop(0, 1, base % modulus, exp, modulus)

encrypt_card(card, public_key) == modpow(card + 2, public_key, PRIME)

\* encrypt_card_bytes that maps its argument like a plaintext card
encrypt_card_bytes_as_card(encrypted_bytes, public_key) ==
    modpow(encrypted_bytes + 2, public_key, PRIME)

encrypt_card_bytes(encrypted_bytes, public_key) ==
    modpow(encrypted_bytes, public_key, PRIME)

verify_card(g, plaintext_card, encrypted_card) ==
    LET player1_key == g.player1_ephemeral_pubkey
        player2_key == g.player2_ephemeral_pubkey
    IN  IF player1_key < 2 \/ player1_key >= PRIME THEN FALSE
        ELSE IF player2_key < 2 \/ player2_key >= PRIME THEN FALSE
        ELSE modpow(modpow(plaintext_card + 2, player1_key, PRIME),
                    player2_key, PRIME) = encrypted_card

(***************************************************************************)
(* Hand evaluator (poker.rs).  A card is a byte; rank = c % 13,            *)
(* suit = c / 13.  The fields of a score never overlap (every rank value   *)
(* is below 16), so `|` of shifted fields is their sum.                    *)
(***************************************************************************)
rank(c) == c % 13

suit(c) == c \div 13

rank_value(c) == rank(c) + 2

RECURSIVE InsertDesc(_, _)
InsertDesc(s, x) ==
    IF s = <<>> THEN <<x>>
    ELSE IF x >= Head(s) THEN <<x>> \o s
    ELSE <<Head(s)>> \o InsertDesc(Tail(s), x)

RECURSIVE SortDesc(_)
SortDesc(s) == IF s = <<>> THEN <<>> ELSE InsertDesc(SortDesc(Tail(s)), Head(s))

Shl(x, n) == x * Pow2(n)

\* check_straight without the ace-to-five case
check_straight_no_wheel(ranks) ==
    /\ ranks[1] = ranks[2] + 1
    /\ ranks[2] = ranks[3] + 1
    /\ ranks[3] = ranks[4] + 1
    /\ ranks[4] = ranks[5] + 1

check_straight(ranks) ==
    \/ /\ ranks[1] = ranks[2] + 1
       /\ ranks[2] = ranks[3] + 1
       /\ ranks[3] = ranks[4] + 1
       /\ ranks[4] = ranks[5] + 1
    \/ ranks = <<12, 3, 2, 1, 0>>

\* (rank, count) pairs, by count descending and then by rank descending
count_ranks(ranks) ==
    LET Count(r) == Cardinality({i \in 1..Len(ranks) : ranks[i] = r})
        keys == SortDesc(ranks)
        Key(r) == Count(r) * 13 + r
        RECURSIVE Dedup(_)
        Dedup(s) == IF s = <<>> THEN <<>>
                    ELSE IF Len(s) > 1 /\ s[1] = s[2] THEN Dedup(Tail(s))
                    ELSE <<Head(s)>> \o Dedup(Tail(s))
        distinct == Dedup(keys)
        sorted == SortDesc([i \in 1..Len(distinct) |-> Key(distinct[i])])
    IN  [i \in 1..Len(sorted) |-> <<sorted[i] % 13, sorted[i] \div 13>>]

\* evaluate_hand with three of a kind looked for before the full house
evaluate_hand_three_first(cards) ==
    LET ranks == SortDesc([i \in 1..5 |-> rank(cards[i])])
        is_flush == \A i \in 1..5 : suit(cards[i]) = suit(cards[1])
        is_straight == check_straight(ranks)
        is_wheel == ranks = <<12, 3, 2, 1, 0>>
        rank_counts == count_ranks(ranks)
        WithCount(n) == SelectSeq(rank_counts, LAMBDA e : e[2] = n)
        four == WithCount(4)
        three == WithCount(3)
        pairs == WithCount(2)
        kickers == WithCount(1)
        high_card == IF is_wheel THEN 5 ELSE ranks[1] + 2
        five_ranks == Shl(ranks[1] + 2, 16) + Shl(ranks[2] + 2, 12)
                      + Shl(ranks[3] + 2, 8) + Shl(ranks[4] + 2, 4)
                      + (ranks[5] + 2)
    IN  IF is_straight /\ is_flush
        THEN IF ranks[1] = 12 /\ ranks[2] = 11
             THEN Shl(9, 20) + Shl(14, 16)
             ELSE Shl(8, 20) + Shl(high_card, 16)
        ELSE IF four # <<>>
        THEN Shl(7, 20) + Shl(four[1][1] + 2, 16) + Shl(kickers[1][1] + 2, 12)
        ELSE IF three # <<>>
        THEN Shl(3, 20) + Shl(three[1][1] + 2, 16)
        ELSE IF three # <<>> /\ pairs # <<>>
        THEN Shl(6, 20) + Shl(three[1][1] + 2, 16) + Shl(pairs[1][1] + 2, 12)
        ELSE IF is_flush
        THEN Shl(5, 20) + five_ranks
        ELSE IF is_straight
        THEN Shl(4, 20) + Shl(high_card, 16)
        ELSE IF three # <<>>
        THEN Shl(3, 20) + Shl(three[1][1] + 2, 16)
             + Shl(kickers[1][1] + 2, 12) + Shl(kickers[2][1] + 2, 8)
        ELSE IF Len(pairs) = 2
        THEN Shl(2, 20) + Shl(pairs[1][1] + 2, 16) + Shl(pairs[2][1] + 2, 12)
             + Shl(kickers[1][1] + 2, 8)
        ELSE IF Len(pairs) = 1
        THEN Shl(1, 20) + Shl(pairs[1][1] + 2, 16) + Shl(kickers[1][1] + 2, 12)
             + Shl(kickers[2][1] + 2, 8) + Shl(kickers[3][1] + 2, 4)
        ELSE five_ranks

evaluate_hand(cards) ==
    LET ranks == SortDesc([i \in 1..5 |-> rank(cards[i])])
        is_flush == \A i \in 1..5 : suit(cards[i]) = suit(cards[1])
        is_straight == check_straight(ranks)
        is_wheel == ranks = <<12, 3, 2, 1, 0>>
        rank_counts == count_ranks(ranks)
        WithCount(n) == SelectSeq(rank_counts, LAMBDA e : e[2] = n)
        four == WithCount(4)
        three == WithCount(3)
        pairs == WithCount(2)
        kickers == WithCount(1)
        high_card == IF is_wheel THEN 5 ELSE ranks[1] + 2
        five_ranks == Shl(ranks[1] + 2, 16) + Shl(ranks[2] + 2, 12)
                      + Shl(ranks[3] + 2, 8) + Shl(ranks[4] + 2, 4)
                      + (ranks[5] + 2)
    IN  IF is_straight /\ is_flush
        THEN IF ranks[1] = 12 /\ ranks[2] = 11
             THEN Shl(9, 20) + Shl(14, 16)
             ELSE Shl(8, 20) + Shl(high_card, 16)
        ELSE IF four # <<>>
        THEN Shl(7, 20) + Shl(four[1][1] + 2, 16) + Shl(kickers[1][1] + 2, 12)
        ELSE IF three # <<>> /\ pairs # <<>>
        THEN Shl(6, 20) + Shl(three[1][1] + 2, 16) + Shl(pairs[1][1] + 2, 12)
        ELSE IF is_flush
        THEN Shl(5, 20) + five_ranks
        ELSE IF is_straight
        THEN Shl(4, 20) + Shl(high_card, 16)
        ELSE IF three # <<>>
        THEN Shl(3, 20) + Shl(three[1][1] + 2, 16)
             + Shl(kickers[1][1] + 2, 12) + Shl(kickers[2][1] + 2, 8)
        ELSE IF Len(pairs) = 2
        THEN Shl(2, 20) + Shl(pairs[1][1] + 2, 16) + Shl(pairs[2][1] + 2, 12)
             + Shl(kickers[1][1] + 2, 8)
        ELSE IF Len(pairs) = 1
        THEN Shl(1, 20) + Shl(pairs[1][1] + 2, 16) + Shl(kickers[1][1] + 2, 12)
             + Shl(kickers[2][1] + 2, 8) + Shl(kickers[3][1] + 2, 4)
        ELSE five_ranks

\* the index tuples i < j < k < l < m of the five nested loops, in loop order
RECURSIVE Combinations(_, _)
Combinations(start, k) ==
    IF k = 0 THEN << <<>> >>
    ELSE IF start > 7 THEN <<>>
    ELSE LET with == Combinations(start + 1, k - 1)
         IN  [n \in 1..Len(with) |-> <<start>> \o with[n]]
             \o Combinations(start + 1, k)

FiveOfSeven == Combinations(1, 5)

RECURSIVE best_loop(_, _, _, _)
best_loop(n, all_cards, best_hand, best_score) ==
    IF n > Len(FiveOfSeven) THEN <<best_hand, best_score>>
    ELSE LET hand == [i \in 1..5 |-> all_cards[FiveOfSeven[n][i]]]
             score == evaluate_hand(hand)
         IN  IF score > best_score
             THEN best_loop(n + 1, all_cards, hand, score)
             ELSE best_loop(n + 1, all_cards, best_hand, best_score)

\* find_best_hand that scores the first combination only
find_best_hand_first_combination(hole_cards, community_cards) ==
    LET all_cards == hole_cards \o community_cards
        hand == [i \in 1..5 |-> all_cards[i]]
    IN  <<hand, evaluate_hand(hand)>>

find_best_hand(hole_cards, community_cards) ==
    best_loop(1, hole_cards \o community_cards, <<0, 0, 0, 0, 0>>, 0)

(***************************************************************************)
(* Instruction inputs                                                      *)
(***************************************************************************)
CreateStakes == StakeAmounts \cup {0, 200, 1000}
Player1Keys == {0, 3}
MerkleRoots == {0, 9}

\* a card encrypted by player 1 and then by player 2 (keys 3 and 5)
DoublyEncrypted(card) == encrypt_card_bytes(encrypt_card(card, 3), 5)

EncryptDeal(cards) == [k \in 1..9 |-> DoublyEncrypted(cards[k])]

\* slots 1,2: player 1's pocket; 3,4: player 2's pocket; 5..9: the board
HonestDeck == EncryptDeal(<<51, 50, 7, 6, 49, 48, 47, 27, 14>>)

\* a deck whose four pocket slots all hold the encryption of card 0
ZeroPocketDeck == EncryptDeal(<<0, 0, 0, 0, 49, 48, 47, 27, 14>>)

ZeroSlotDeck == [HonestDeck EXCEPT ![9] = 0]

JoinInput(player2, pk, encrypted_cards, proofs) ==
    [player2 |-> player2, pk |-> pk, encrypted_cards |-> encrypted_cards,
     proofs |-> proofs]

\* join_game is tried with two well-formed decks and with one input per check
\* of the handler: a zero key, eight proofs, a zero slot, the creator joining
JoinInputs ==
    {JoinInput(P2, 5, HonestDeck, 9), JoinInput(P2, 5, ZeroPocketDeck, 9),
     JoinInput(P2, 0, HonestDeck, 9), JoinInput(P2, 5, HonestDeck, 8),
     JoinInput(P2, 5, ZeroSlotDeck, 9), JoinInput(P1, 5, HonestDeck, 9)}

ShareInputs == {<<71>>, <<71, 72, 73>>}
NoPlaintext == <<0 - 1>>        \* plaintext_cards = None
PlaintextInputs == {NoPlaintext, <<49, 48, 47>>, <<27>>}
Anyone == "anyone"              \* the instruction names no acting player

RaiseAmountsOf(g) ==
    IF g.stake_amount \in BettingStakes THEN BettingRaiseAmounts ELSE RaiseAmounts

\* player_action is tried with every action of each player, and with one
\* action of a signer that is not in the game
ActionInputs(g) ==
    {<<player, action, raise_amount>> \in
        Signers \X PlayerActionType \X (RaiseAmountsOf(g) \cup {0 - 1}) :
        /\ action # "Raise" => raise_amount = 0 - 1
        /\ player = P3 => action = "Call"}

\* reveal_community_cards: player 1 sends shares only; player 2 sends shares
\* and plaintext; the outsider sends one share
RevealInputs ==
    {<<player, decryption_shares, plaintext_cards>> \in
        Signers \X ShareInputs \X PlaintextInputs :
        /\ player = P1 => plaintext_cards = NoPlaintext
        /\ player = P3 => decryption_shares = <<71>> /\ plaintext_cards = NoPlaintext}

Call(op, caller, action, amount, shares, plaintext) ==
    [op |-> op, caller |-> caller, action |-> action, amount |-> amount,
     shares |-> shares, plaintext |-> plaintext]

(***************************************************************************)
(* The GameState account                                                   *)
(***************************************************************************)
\* the account before create_game initialises it
NoGame ==
    [stage |-> "Uninitialized",
     player1 |-> DefaultPubkey, player2 |-> DefaultPubkey,
     stake_amount |-> 0, pot |-> 0,
     player1_current_bet |-> 0, player2_current_bet |-> 0,
     player1_stack |-> 0, player2_stack |-> 0,
     player1_bond |-> 0, player2_bond |-> 0,
     player1_ephemeral_pubkey |-> 0, player2_ephemeral_pubkey |-> 0,
     deck_merkle_root |-> 0,
     encrypted_cards |-> [k \in 1..9 |-> 0],
     player1_flop_shares |-> <<0, 0, 0>>,
     player1_turn_share |-> 0, player1_river_share |-> 0,
     player1_hand |-> <<0, 0>>, player2_hand |-> <<0, 0>>,
     community_cards |-> <<0, 0, 0, 0, 0>>,
     community_cards_revealed |-> 0,
     current_player |-> 0, dealer_button |-> 0,
     last_action |-> "None",
     small_blind |-> 0, big_blind |-> 0,
     player1_folded |-> FALSE, player2_folded |-> FALSE,
     player1_all_in |-> FALSE, player2_all_in |-> FALSE,
     player1_revealed_hand |-> FALSE, player2_revealed_hand |-> FALSE,
     created_at |-> 0, last_action_at |-> 0,
     action_timeout |-> 0, reveal_deadline |-> 0,
     winner |-> None, winning_hand_rank |-> None]

Created == game.stage # "Uninitialized"

\* player 2 has joined the hand.  resolve_hand and claim_timeout name
\* player2_balance, the ledger account derived from game.player2: the runtime
\* loads it before the handler runs, and the default key has no such account,
\* so these two instructions reach their handlers only for a joined hand.
Joined == game.player2 # DefaultPubkey

\* no library function is being applied
NoProbe == [fn |-> "none", args |-> <<>>, value |-> <<>>]

NoCall == Call("none", Anyone, "-", 0, 0, <<>>)

Idle == call = NoCall

is_betting_round_complete(g) ==
    IF g.player1_folded \/ g.player2_folded THEN TRUE
    ELSE IF g.player1_all_in \/ g.player2_all_in THEN TRUE
    ELSE /\ g.player1_current_bet = g.player2_current_bet
         /\ g.last_action # "None"

get_other_player(g, player) ==
    IF player = g.player1 THEN g.player2 ELSE g.player1

is_player_turn(g, player) ==
    IF g.current_player = 1 THEN player = g.player1 ELSE player = g.player2

Init ==
    /\ game = NoGame
    /\ balance = [p \in {P1, P2} |-> Deposit]
    /\ game_vault = 0
    /\ program_vault = 2 * Deposit
    /\ now = 0
    /\ credits = 0
    /\ call = NoCall
    /\ result = "Ok"
    /\ has_acted = {}
    /\ probe = NoProbe

(***************************************************************************)
(* The clock                                                               *)
(***************************************************************************)
Tick ==
    /\ Idle
    /\ UNCHANGED probe
    /\ \E d \in TickSteps :
          /\ now + d <= MaxNow
          /\ now' = now + d
    /\ UNCHANGED <<game, balance, game_vault, program_vault, credits, call, result,
                   has_acted>>

\* the outcome of the pending instruction is returned to its submitter
Return ==
    /\ ~Idle
    /\ UNCHANGED probe
    /\ call' = NoCall
    /\ result' = "Ok"
    /\ UNCHANGED <<game, balance, game_vault, program_vault, now, credits,
                   has_acted>>

(***************************************************************************)
(* create_game (instructions/game_setup.rs)                                *)
(***************************************************************************)
\* create_game_result without the check of the caller's balance
create_game_result_any_balance(stake_amount, player1_ephemeral_pubkey, deck_merkle_root) ==
    LET total_amount == stake_amount + stake_amount \div 10
    IN  IF ~(stake_amount > 0) THEN "InvalidBetAmount"
        ELSE IF player1_ephemeral_pubkey = 0 THEN "InvalidEphemeralKey"
        ELSE IF deck_merkle_root = 0 THEN "InvalidCommitment"
        ELSE IF program_vault < total_amount THEN "TokenInsufficientFunds"
        ELSE "Ok"

create_game_result(stake_amount, player1_ephemeral_pubkey, deck_merkle_root) ==
    LET total_amount == stake_amount + stake_amount \div 10
    IN  IF ~(stake_amount > 0) THEN "InvalidBetAmount"
        ELSE IF player1_ephemeral_pubkey = 0 THEN "InvalidEphemeralKey"
        ELSE IF deck_merkle_root = 0 THEN "InvalidCommitment"
        ELSE IF ~(balance[P1] >= total_amount) THEN "InsufficientBalanceToJoin"
        ELSE IF program_vault < total_amount THEN "TokenInsufficientFunds"
        ELSE "Ok"

create_game_state(stake_amount, player1_ephemeral_pubkey, deck_merkle_root) ==
    [NoGame EXCEPT
        !.player1 = P1,
        !.player2 = DefaultPubkey,
        !.stake_amount = stake_amount,
        !.player1_stack = stake_amount,
        !.player1_bond = stake_amount \div 10,
        !.player1_ephemeral_pubkey = player1_ephemeral_pubkey,
        !.deck_merkle_root = deck_merkle_root,
        !.stage = "WaitingForPlayer2",
        !.current_player = 0,
        !.dealer_button = 1,
        !.last_action = "None",
        !.small_blind = stake_amount \div 100,
        !.big_blind = stake_amount \div 50,
        !.created_at = now,
        !.last_action_at = now,
        !.action_timeout = ACTION_TIMEOUT,
        !.reveal_deadline = 0]

CreateGame ==
    /\ Idle
    /\ UNCHANGED probe
    /\ ~Created
    /\ \E stake_amount \in CreateStakes, pk \in Player1Keys, root \in MerkleRoots :
          LET res == create_game_result(stake_amount, pk, root)
              total_amount == stake_amount + stake_amount \div 10
          IN  /\ call' = Call("create_game", P1, "-", stake_amount, 0, <<>>)
              /\ result' = res
              /\ IF res = "Ok"
                 THEN /\ game' = create_game_state(stake_amount, pk, root)
                      /\ balance' = [balance EXCEPT ![P1] = @ - total_amount]
                      /\ program_vault' = program_vault - total_amount
                      /\ game_vault' = game_vault + total_amount
                 ELSE UNCHANGED <<game, balance, program_vault, game_vault>>
    /\ UNCHANGED <<now, credits, has_acted>>

(***************************************************************************)
(* join_game (instructions/game_setup.rs)                                  *)
(***************************************************************************)
join_game_result(g, player2, player2_ephemeral_pubkey, encrypted_cards, proofs) ==
    LET total_amount == g.stake_amount + g.stake_amount \div 10
    IN  IF player2_ephemeral_pubkey = 0 THEN "InvalidEphemeralKey"
        ELSE IF proofs # 9 THEN "InvalidEncryptedCards"
        ELSE IF \E k \in 1..9 : encrypted_cards[k] = 0 THEN "InvalidEncryptedCards"
        ELSE IF g.stage # "WaitingForPlayer2" THEN "InvalidGameStage"
        ELSE IF g.player2 # DefaultPubkey THEN "GameAlreadyFull"
        ELSE IF player2 = g.player1 THEN "CannotJoinOwnGame"
        ELSE IF ~(balance[player2] >= total_amount) THEN "InsufficientBalanceToJoin"
        ELSE IF program_vault < total_amount THEN "TokenInsufficientFunds"
        ELSE "Ok"

\* join_game_state with the blinds posted the other way round
join_game_state_blinds_swapped(g, player2, player2_ephemeral_pubkey, encrypted_cards) ==
    [g EXCEPT
        !.player2 = player2,
        !.player2_ephemeral_pubkey = player2_ephemeral_pubkey,
        !.player2_bond = g.stake_amount \div 10,
        !.encrypted_cards = encrypted_cards,
        !.player2_current_bet = g.small_blind,
        !.player1_current_bet = g.big_blind,
        !.player2_stack = saturating_sub(g.stake_amount, g.small_blind),
        !.player1_stack = saturating_sub(@, g.big_blind),
        !.pot = g.small_blind + g.big_blind,
        !.current_player = 1,
        !.stage = "PreFlopBetting",
        !.last_action_at = now]

join_game_state(g, player2, player2_ephemeral_pubkey, encrypted_cards) ==
    LET joined == [g EXCEPT
                      !.player2 = player2,
                      !.player2_ephemeral_pubkey = player2_ephemeral_pubkey,
                      !.player2_stack = g.stake_amount,
                      !.player2_bond = g.stake_amount \div 10,
                      !.encrypted_cards = encrypted_cards]
        blinds == IF joined.dealer_button = 1
                  THEN [joined EXCEPT
                          !.player1_current_bet = joined.small_blind,
                          !.player2_current_bet = joined.big_blind,
                          !.player1_stack = saturating_sub(@, joined.small_blind),
                          !.player2_stack = saturating_sub(@, joined.big_blind),
                          !.pot = joined.small_blind + joined.big_blind,
                          !.current_player = 1]
                  ELSE [joined EXCEPT
                          !.player2_current_bet = joined.small_blind,
                          !.player1_current_bet = joined.big_blind,
                          !.player2_stack = saturating_sub(@, joined.small_blind),
                          !.player1_stack = saturating_sub(@, joined.big_blind),
                          !.pot = joined.small_blind + joined.big_blind,
                          !.current_player = 2]
    IN  [blinds EXCEPT !.stage = "PreFlopBetting", !.last_action_at = now]

JoinGame ==
    /\ Idle
    /\ UNCHANGED probe
    /\ Created
    /\ \E inp \in JoinInputs :
          LET res == join_game_result(game, inp.player2, inp.pk,
                                      inp.encrypted_cards, inp.proofs)
              total_amount == game.stake_amount + game.stake_amount \div 10
          IN  /\ call' = Call("join_game", inp.player2, "-", 0, inp.proofs,
                               inp.encrypted_cards)
              /\ result' = res
              /\ IF res = "Ok"
                 THEN /\ game' = join_game_state(game, inp.player2, inp.pk,
                                                 inp.encrypted_cards)
                      /\ balance' = [balance EXCEPT ![inp.player2] = @ - total_amount]
                      /\ program_vault' = program_vault - total_amount
                      /\ game_vault' = game_vault + total_amount
                 ELSE UNCHANGED <<game, balance, program_vault, game_vault>>
    /\ UNCHANGED <<now, credits, has_acted>>

(***************************************************************************)
(* player_action (instructions/game_play.rs).  raise_amount = -1 is None.  *)
(***************************************************************************)
NoAmount == 0 - 1

current_bet_of(g, is_player1) ==
    IF is_player1 THEN g.player1_current_bet ELSE g.player2_current_bet

stack_of(g, is_player1) ==
    IF is_player1 THEN g.player1_stack ELSE g.player2_stack

\* player_action_result without the exception for a raise of the whole stack
player_action_result_strict_min_raise(g, player, action, raise_amount) ==
    LET is_player1 == player = g.player1
        current_bet == current_bet_of(g, is_player1)
        opponent_bet == current_bet_of(g, ~is_player1)
        player_stack == stack_of(g, is_player1)
        call_amount == saturating_sub(opponent_bet, current_bet)
        total_new_bet == saturating_add(call_amount, raise_amount)
        min_raise == saturating_sub(opponent_bet, current_bet)
    IN  IF g.stage \notin BettingStages THEN "InvalidGameStage"
        ELSE IF ~is_player_turn(g, player) THEN "NotYourTurn"
        ELSE IF is_player1 /\ g.player1_folded THEN "CannotActAfterFold"
        ELSE IF is_player1 /\ g.player1_all_in THEN "CannotRaiseAllIn"
        ELSE IF ~is_player1 /\ g.player2_folded THEN "CannotActAfterFold"
        ELSE IF ~is_player1 /\ g.player2_all_in THEN "CannotRaiseAllIn"
        ELSE CASE action = "Fold" -> "Ok"
               [] action = "Check" ->
                    IF current_bet = opponent_bet THEN "Ok" ELSE "InvalidAction"
               [] action = "Call" -> "Ok"
               [] action = "Raise" ->
                    IF raise_amount = NoAmount THEN "InvalidBetAmount"
                    ELSE IF ~(player_stack >= total_new_bet) THEN "InsufficientFunds"
                    ELSE IF ~(raise_amount >= min_raise) THEN "MinimumRaiseNotMet"
                    ELSE "Ok"
               [] action = "AllIn" ->
                    IF player_stack > 0 THEN "Ok" ELSE "InsufficientFunds"
               [] OTHER -> "InvalidAction"

player_action_result(g, player, action, raise_amount) ==
    LET is_player1 == player = g.player1
        current_bet == current_bet_of(g, is_player1)
        opponent_bet == current_bet_of(g, ~is_player1)
        player_stack == stack_of(g, is_player1)
        call_amount == saturating_sub(opponent_bet, current_bet)
        total_new_bet == saturating_add(call_amount, raise_amount)
        min_raise == saturating_sub(opponent_bet, current_bet)
    IN  IF g.stage \notin BettingStages THEN "InvalidGameStage"
        ELSE IF ~is_player_turn(g, player) THEN "NotYourTurn"
        ELSE IF is_player1 /\ g.player1_folded THEN "CannotActAfterFold"
        ELSE IF is_player1 /\ g.player1_all_in THEN "CannotRaiseAllIn"
        ELSE IF ~is_player1 /\ g.player2_folded THEN "CannotActAfterFold"
        ELSE IF ~is_player1 /\ g.player2_all_in THEN "CannotRaiseAllIn"
        ELSE CASE action = "Fold" -> "Ok"
               [] action = "Check" ->
                    IF current_bet = opponent_bet THEN "Ok" ELSE "InvalidAction"
               [] action = "Call" -> "Ok"
               [] action = "Raise" ->
                    IF raise_amount = NoAmount THEN "InvalidBetAmount"
                    ELSE IF ~(player_stack >= total_new_bet) THEN "InsufficientFunds"
                    ELSE IF ~(\/ raise_amount >= min_raise
                              \/ raise_amount = saturating_sub(player_stack, call_amount))
                         THEN "MinimumRaiseNotMet"
                    ELSE "Ok"
               [] action = "AllIn" ->
                    IF player_stack > 0 THEN "Ok" ELSE "InsufficientFunds"
               [] OTHER -> "InvalidAction"

\* the bet, stack and all-in flag of the acting player, and the pot
set_bettor(g, is_player1, bet, stack, all_in, pot) ==
    IF is_player1
    THEN [g EXCEPT !.player1_current_bet = bet, !.player1_stack = stack,
                   !.player1_all_in = all_in, !.pot = pot]
    ELSE [g EXCEPT !.player2_current_bet = bet, !.player2_stack = stack,
                   !.player2_all_in = all_in, !.pot = pot]

\* fold_effect with the folding player recorded as the winner
fold_effect_winner_is_folder(g, player, is_player1) ==
    LET folded == IF is_player1 THEN [g EXCEPT !.player1_folded = TRUE]
                  ELSE [g EXCEPT !.player2_folded = TRUE]
    IN  [folded EXCEPT !.stage = "Finished", !.winner = player]

fold_effect(g, player, is_player1) ==
    LET folded == IF is_player1 THEN [g EXCEPT !.player1_folded = TRUE]
                  ELSE [g EXCEPT !.player2_folded = TRUE]
    IN  [folded EXCEPT !.stage = "Finished",
                       !.winner = get_other_player(g, player)]

\* call_effect that marks the caller all-in when the call takes the whole
\* stack
call_effect_all_in_at_equal(g, is_player1) ==
    LET current_bet == current_bet_of(g, is_player1)
        opponent_bet == current_bet_of(g, ~is_player1)
        player_stack == stack_of(g, is_player1)
        call_amount == saturating_sub(opponent_bet, current_bet)
    IN  IF player_stack <= call_amount
        THEN set_bettor(g, is_player1, saturating_add(current_bet, player_stack),
                        0, TRUE, saturating_add(g.pot, player_stack))
        ELSE set_bettor(g, is_player1, opponent_bet,
                        saturating_sub(player_stack, call_amount), FALSE,
                        saturating_add(g.pot, call_amount))

call_effect(g, is_player1) ==
    LET current_bet == current_bet_of(g, is_player1)
        opponent_bet == current_bet_of(g, ~is_player1)
        player_stack == stack_of(g, is_player1)
        was_all_in == IF is_player1 THEN g.player1_all_in ELSE g.player2_all_in
        call_amount == saturating_sub(opponent_bet, current_bet)
    IN  IF player_stack < call_amount
        THEN set_bettor(g, is_player1, saturating_add(current_bet, player_stack),
                        0, TRUE, saturating_add(g.pot, player_stack))
        ELSE set_bettor(g, is_player1, opponent_bet,
                        saturating_sub(player_stack, call_amount), was_all_in,
                        saturating_add(g.pot, call_amount))

\* raise_effect with the pot grown by the capped bet instead of the chips paid
raise_effect_pot_by_capped_bet(g, is_player1, raise_amt) ==
    LET current_bet == current_bet_of(g, is_player1)
        opponent_bet == current_bet_of(g, ~is_player1)
        player_stack == stack_of(g, is_player1)
        opponent_stack == stack_of(g, ~is_player1)
        was_all_in == IF is_player1 THEN g.player1_all_in ELSE g.player2_all_in
        call_amount == saturating_sub(opponent_bet, current_bet)
        total_new_bet == saturating_add(call_amount, raise_amt)
        new_bet == saturating_add(current_bet, total_new_bet)
        effective_bet ==
            IF new_bet > saturating_add(opponent_bet, opponent_stack)
            THEN saturating_add(opponent_bet, opponent_stack)
            ELSE new_bet
    IN  set_bettor(g, is_player1, effective_bet,
                   saturating_sub(player_stack, total_new_bet), was_all_in,
                   saturating_add(g.pot, saturating_sub(effective_bet, current_bet)))

\* raise_effect that records the new bet without the opponent cap
raise_effect_uncapped(g, is_player1, raise_amt) ==
    LET current_bet == current_bet_of(g, is_player1)
        opponent_bet == current_bet_of(g, ~is_player1)
        player_stack == stack_of(g, is_player1)
        was_all_in == IF is_player1 THEN g.player1_all_in ELSE g.player2_all_in
        call_amount == saturating_sub(opponent_bet, current_bet)
        total_new_bet == saturating_add(call_amount, raise_amt)
    IN  set_bettor(g, is_player1, saturating_add(current_bet, total_new_bet),
                   saturating_sub(player_stack, total_new_bet), was_all_in,
                   saturating_add(g.pot, total_new_bet))

raise_effect(g, is_player1, raise_amt) ==
    LET current_bet == current_bet_of(g, is_player1)
        opponent_bet == current_bet_of(g, ~is_player1)
        player_stack == stack_of(g, is_player1)
        opponent_stack == stack_of(g, ~is_player1)
        was_all_in == IF is_player1 THEN g.player1_all_in ELSE g.player2_all_in
        call_amount == saturating_sub(opponent_bet, current_bet)
        total_new_bet == saturating_add(call_amount, raise_amt)
        new_bet == saturating_add(current_bet, total_new_bet)
        effective_bet ==
            IF new_bet > saturating_add(opponent_bet, opponent_stack)
            THEN saturating_add(opponent_bet, opponent_stack)
            ELSE new_bet
    IN  set_bettor(g, is_player1, effective_bet,
                   saturating_sub(player_stack, total_new_bet), was_all_in,
                   saturating_add(g.pot, total_new_bet))

all_in_effect(g, is_player1) ==
    LET current_bet == current_bet_of(g, is_player1)
        player_stack == stack_of(g, is_player1)
    IN  set_bettor(g, is_player1, saturating_add(current_bet, player_stack),
                   0, TRUE, saturating_add(g.pot, player_stack))

\* player_action_state with the turn left where it was
player_action_state_keeps_turn(g, player, action, raise_amount) ==
    LET is_player1 == player = g.player1
        acted == CASE action = "Fold" -> fold_effect(g, player, is_player1)
                   [] action = "Check" -> g
                   [] action = "Call" -> call_effect(g, is_player1)
                   [] action = "Raise" -> raise_effect(g, is_player1, raise_amount)
                   [] action = "AllIn" -> all_in_effect(g, is_player1)
    IN  [acted EXCEPT !.last_action = action,
                      !.last_action_at = now]

player_action_state(g, player, action, raise_amount) ==
    LET is_player1 == player = g.player1
        acted == CASE action = "Fold" -> fold_effect(g, player, is_player1)
                   [] action = "Check" -> g
                   [] action = "Call" -> call_effect(g, is_player1)
                   [] action = "Raise" -> raise_effect(g, is_player1, raise_amount)
                   [] action = "AllIn" -> all_in_effect(g, is_player1)
    IN  [acted EXCEPT !.last_action = action,
                      !.last_action_at = now,
                      !.current_player = IF @ = 1 THEN 2 ELSE 1]

PlayerAction ==
    /\ Idle
    /\ UNCHANGED probe
    /\ Created
    /\ \E <<player, action, raise_amount>> \in ActionInputs(game) :
          LET res == player_action_result(game, player, action, raise_amount)
          IN  /\ call' = Call("player_action", player, action, raise_amount, 0, <<>>)
              /\ result' = res
              /\ game' = IF res = "Ok"
                         THEN player_action_state(game, player, action, raise_amount)
                         ELSE game
              /\ has_acted' = IF res = "Ok"
                              THEN has_acted \cup {IF player = game.player1 THEN 1 ELSE 2}
                              ELSE has_acted
    /\ UNCHANGED <<balance, game_vault, program_vault, now, credits>>

(***************************************************************************)
(* advance_street (instructions/game_play.rs)                              *)
(***************************************************************************)
\* NextStreet with the flop round leading back to the flop reveal
NextStreet_flop_again(stage) ==
    CASE stage = "PreFlopBetting" -> "AwaitingFlopReveal"
      [] stage = "PostFlopBetting" -> "AwaitingFlopReveal"
      [] stage = "PostTurnBetting" -> "AwaitingRiverReveal"
      [] stage = "PostRiverBetting" -> "Showdown"

NextStreet(stage) ==
    CASE stage = "PreFlopBetting" -> "AwaitingFlopReveal"
      [] stage = "PostFlopBetting" -> "AwaitingTurnReveal"
      [] stage = "PostTurnBetting" -> "AwaitingRiverReveal"
      [] stage = "PostRiverBetting" -> "Showdown"

advance_street_result(g) ==
    IF ~is_betting_round_complete(g) THEN "BettingRoundNotComplete"
    ELSE IF g.player1_folded \/ g.player2_folded THEN "Ok"
    ELSE IF g.stage \in BettingStages THEN "Ok"
    ELSE "InvalidGameStage"

advance_street_state(g) ==
    IF g.player1_folded \/ g.player2_folded
    THEN [g EXCEPT !.stage = "Finished"]
    ELSE [g EXCEPT !.stage = NextStreet(g.stage), !.last_action_at = now]

AdvanceStreet ==
    /\ Idle
    /\ UNCHANGED probe
    /\ Created
    /\ LET res == advance_street_result(game)
       IN  /\ call' = Call("advance_street", Anyone, "-", 0, 0, <<>>)
           /\ result' = res
           /\ game' = IF res = "Ok" THEN advance_street_state(game) ELSE game
           /\ has_acted' = IF res = "Ok" THEN {} ELSE has_acted
    /\ UNCHANGED <<balance, game_vault, program_vault, now, credits>>

(***************************************************************************)
(* reveal_community_cards (instructions/game_setup.rs)                     *)
(***************************************************************************)
Player1RevealStages ==
    {"AwaitingFlopReveal", "AwaitingTurnReveal", "AwaitingRiverReveal"}

\* the number of cards a reveal stage is about
CardsOfStage(stage) ==
    IF stage \in {"AwaitingFlopReveal", "AwaitingPlayer2FlopShare"} THEN 3 ELSE 1

\* reveal_community_cards_result that refuses player 2's step once the
\* reveal deadline has passed
reveal_community_cards_result_expires(g, player, decryption_shares, plaintext_cards) ==
    LET is_player1 == player = g.player1
        n == CardsOfStage(g.stage)
    IN  IF g.stage \in Player1RevealStages
        THEN IF ~is_player1 THEN "NotYourTurn"
             ELSE IF Len(decryption_shares) # n THEN "MissingDecryptionShares"
             ELSE "Ok"
        ELSE IF g.stage \in Player2ShareStages
        THEN IF is_player1 THEN "NotYourTurn"
             ELSE IF now > g.reveal_deadline THEN "TimeoutNotReached"
             ELSE IF Len(decryption_shares) # n THEN "MissingDecryptionShares"
             ELSE IF ~(plaintext_cards # NoPlaintext /\ Len(plaintext_cards) = n)
                  THEN "InvalidCommunityCards"
             ELSE "Ok"
        ELSE "InvalidGameStage"

reveal_community_cards_result(g, player, decryption_shares, plaintext_cards) ==
    LET is_player1 == player = g.player1
        n == CardsOfStage(g.stage)
    IN  IF g.stage \in Player1RevealStages
        THEN IF ~is_player1 THEN "NotYourTurn"
             ELSE IF Len(decryption_shares) # n THEN "MissingDecryptionShares"
             ELSE "Ok"
        ELSE IF g.stage \in Player2ShareStages
        THEN IF is_player1 THEN "NotYourTurn"
             ELSE IF Len(decryption_shares) # n THEN "MissingDecryptionShares"
             ELSE IF ~(plaintext_cards # NoPlaintext /\ Len(plaintext_cards) = n)
                  THEN "InvalidCommunityCards"
             ELSE "Ok"
        ELSE "InvalidGameStage"

\* store_player1_shares that leaves the reveal deadline as it was
store_player1_shares_no_deadline(g, decryption_shares) ==
    LET stored ==
          CASE g.stage = "AwaitingFlopReveal" ->
                 [g EXCEPT !.player1_flop_shares = decryption_shares,
                           !.stage = "AwaitingPlayer2FlopShare"]
            [] g.stage = "AwaitingTurnReveal" ->
                 [g EXCEPT !.player1_turn_share = decryption_shares[1],
                           !.stage = "AwaitingPlayer2TurnShare"]
            [] g.stage = "AwaitingRiverReveal" ->
                 [g EXCEPT !.player1_river_share = decryption_shares[1],
                           !.stage = "AwaitingPlayer2RiverShare"]
    IN  [stored EXCEPT !.last_action_at = now]

\* step 1: player 1's shares are stored and player 2 gets a deadline
store_player1_shares(g, decryption_shares) ==
    LET stored ==
          CASE g.stage = "AwaitingFlopReveal" ->
                 [g EXCEPT !.player1_flop_shares = decryption_shares,
                           !.stage = "AwaitingPlayer2FlopShare"]
            [] g.stage = "AwaitingTurnReveal" ->
                 [g EXCEPT !.player1_turn_share = decryption_shares[1],
                           !.stage = "AwaitingPlayer2TurnShare"]
            [] g.stage = "AwaitingRiverReveal" ->
                 [g EXCEPT !.player1_river_share = decryption_shares[1],
                           !.stage = "AwaitingPlayer2RiverShare"]
    IN  [stored EXCEPT !.reveal_deadline = now + g.action_timeout,
                       !.last_action_at = now]

\* store_plaintext_cards with the turn left where the last round ended
store_plaintext_cards_keeps_turn(g, plaintext) ==
    LET stored ==
          CASE g.stage = "AwaitingPlayer2FlopShare" ->
                 [g EXCEPT !.community_cards[1] = plaintext[1],
                           !.community_cards[2] = plaintext[2],
                           !.community_cards[3] = plaintext[3],
                           !.community_cards_revealed = 3,
                           !.stage = "PostFlopBetting"]
            [] g.stage = "AwaitingPlayer2TurnShare" ->
                 [g EXCEPT !.community_cards[4] = plaintext[1],
                           !.community_cards_revealed = 4,
                           !.stage = "PostTurnBetting"]
            [] g.stage = "AwaitingPlayer2RiverShare" ->
                 [g EXCEPT !.community_cards[5] = plaintext[1],
                           !.community_cards_revealed = 5,
                           !.stage = "PostRiverBetting"]
    IN  [stored EXCEPT !.player1_current_bet = 0,
                       !.player2_current_bet = 0,
                       !.last_action = "None",
                       !.last_action_at = now]

\* store_plaintext_cards that keeps the bets of the round just closed
store_plaintext_cards_keeps_bets(g, plaintext) ==
    LET stored ==
          CASE g.stage = "AwaitingPlayer2FlopShare" ->
                 [g EXCEPT !.community_cards[1] = plaintext[1],
                           !.community_cards[2] = plaintext[2],
                           !.community_cards[3] = plaintext[3],
                           !.community_cards_revealed = 3,
                           !.stage = "PostFlopBetting"]
            [] g.stage = "AwaitingPlayer2TurnShare" ->
                 [g EXCEPT !.community_cards[4] = plaintext[1],
                           !.community_cards_revealed = 4,
                           !.stage = "PostTurnBetting"]
            [] g.stage = "AwaitingPlayer2RiverShare" ->
                 [g EXCEPT !.community_cards[5] = plaintext[1],
                           !.community_cards_revealed = 5,
                           !.stage = "PostRiverBetting"]
    IN  [stored EXCEPT !.current_player = IF g.dealer_button = 1 THEN 2 ELSE 1,
                       !.last_action = "None",
                       !.last_action_at = now]

\* step 2: the plaintext cards are stored (unverified) and betting reopens
store_plaintext_cards(g, plaintext) ==
    LET stored ==
          CASE g.stage = "AwaitingPlayer2FlopShare" ->
                 [g EXCEPT !.community_cards[1] = plaintext[1],
                           !.community_cards[2] = plaintext[2],
                           !.community_cards[3] = plaintext[3],
                           !.community_cards_revealed = 3,
                           !.stage = "PostFlopBetting"]
            [] g.stage = "AwaitingPlayer2TurnShare" ->
                 [g EXCEPT !.community_cards[4] = plaintext[1],
                           !.community_cards_revealed = 4,
                           !.stage = "PostTurnBetting"]
            [] g.stage = "AwaitingPlayer2RiverShare" ->
                 [g EXCEPT !.community_cards[5] = plaintext[1],
                           !.community_cards_revealed = 5,
                           !.stage = "PostRiverBetting"]
    IN  [stored EXCEPT !.current_player = IF g.dealer_button = 1 THEN 2 ELSE 1,
                       !.player1_current_bet = 0,
                       !.player2_current_bet = 0,
                       !.last_action = "None",
                       !.last_action_at = now]

reveal_community_cards_state(g, decryption_shares, plaintext_cards) ==
    IF g.stage \in Player1RevealStages
    THEN store_player1_shares(g, decryption_shares)
    ELSE store_plaintext_cards(g, plaintext_cards)

RevealCommunityCards ==
    /\ Idle
    /\ UNCHANGED probe
    /\ Created
    /\ \E <<player, decryption_shares, plaintext_cards>> \in RevealInputs :
          LET res == reveal_community_cards_result(game, player, decryption_shares,
                                                   plaintext_cards)
          IN  /\ call' = Call("reveal_community_cards", player, "-", 0,
                              Len(decryption_shares), plaintext_cards)
              /\ result' = res
              /\ game' = IF res = "Ok"
                         THEN reveal_community_cards_state(game, decryption_shares,
                                                           plaintext_cards)
                         ELSE game
    /\ UNCHANGED <<balance, game_vault, program_vault, now, credits, has_acted>>

(***************************************************************************)
(* resolve_hand (instructions/game_end.rs)                                 *)
(***************************************************************************)
\* pockets_verify with the four checks left out
pockets_verify_skipped(g) == TRUE

pockets_verify(g) ==
    /\ verify_card(g, g.player1_hand[1], g.encrypted_cards[1])
    /\ verify_card(g, g.player1_hand[2], g.encrypted_cards[2])
    /\ verify_card(g, g.player2_hand[1], g.encrypted_cards[3])
    /\ verify_card(g, g.player2_hand[2], g.encrypted_cards[4])

resolve_hand_result(g, player) ==
    LET is_player1 == player = g.player1
        total_amount == g.pot + g.player1_bond + g.player2_bond
    IN  IF g.stage \notin {"Showdown", "AwaitingPlayer2ShowdownReveal"}
        THEN "InvalidGameStage"
        ELSE IF g.stage = "Showdown"
        THEN IF ~(~g.player1_revealed_hand /\ ~g.player2_revealed_hand)
             THEN "AlreadyRevealedHand"
             ELSE "Ok"
        ELSE IF ~(\/ is_player1 /\ ~g.player1_revealed_hand
                  \/ ~is_player1 /\ ~g.player2_revealed_hand)
             THEN "AlreadyRevealedHand"
        ELSE IF ~pockets_verify(g) THEN "CardVerificationFailed"
        ELSE IF total_amount > 0 /\ game_vault < total_amount
             THEN "TokenInsufficientFunds"
        ELSE "Ok"

mark_revealed(g, is_player1) ==
    IF is_player1 THEN [g EXCEPT !.player1_revealed_hand = TRUE]
    ELSE [g EXCEPT !.player2_revealed_hand = TRUE]

\* <<p1_win, p2_win>>, the winner and the winning rank of a showdown
showdown_winnings(g, player1_score, player2_score) ==
    LET pot_amount == g.pot
    IN  IF player1_score > player2_score
        THEN [p1_win |-> pot_amount + g.player1_bond, p2_win |-> g.player2_bond,
              winner |-> g.player1, rank |-> player1_score \div Pow2(20)]
        ELSE IF player2_score > player1_score
        THEN [p1_win |-> g.player1_bond, p2_win |-> pot_amount + g.player2_bond,
              winner |-> g.player2, rank |-> player2_score \div Pow2(20)]
        ELSE [p1_win |-> pot_amount \div 2 + g.player1_bond,
              p2_win |-> pot_amount \div 2 + g.player2_bond,
              winner |-> None, rank |-> g.winning_hand_rank]

\* the ledger balances after update_player_stats
update_player_stats(bal, p1_win, p2_win) ==
    IF p1_win > 0
    THEN [bal EXCEPT ![P1] = saturating_add(@, p1_win)]
    ELSE IF p2_win > 0
    THEN [bal EXCEPT ![P2] = saturating_add(@, p2_win)]
    ELSE [bal EXCEPT ![P1] = saturating_add(@, p1_win),
                     ![P2] = saturating_add(@, p2_win)]

player1_score_of(g) == find_best_hand(g.player1_hand, g.community_cards)[2]

player2_score_of(g) == find_best_hand(g.player2_hand, g.community_cards)[2]

\* the GameState account as resolve_hand has written it when it returns res:
\* the revealed flag is set after the stage and AlreadyRevealedHand checks and
\* before the pocket cards are verified
resolve_hand_written(g, player, res) ==
    LET revealed == mark_revealed(g, player = g.player1)
        won == showdown_winnings(g, player1_score_of(g), player2_score_of(g))
    IN  IF res \in {"InvalidGameStage", "AlreadyRevealedHand"} THEN g
        ELSE IF g.stage = "Showdown"
        THEN [revealed EXCEPT !.reveal_deadline = now + g.action_timeout,
                              !.stage = "AwaitingPlayer2ShowdownReveal",
                              !.last_action_at = now]
        ELSE IF res = "CardVerificationFailed" THEN revealed
        ELSE [revealed EXCEPT !.winner = won.winner,
                              !.winning_hand_rank = won.rank,
                              !.stage = "Finished"]

\* account_after that keeps the writes of a handler that returned an error
account_after_error_kept(res, before, written) == written

\* the account after the instruction: what the handler has written is kept
\* when it returns Ok and dropped when it returns an error
account_after(res, before, written) == IF res = "Ok" THEN written ELSE before

ResolveHand ==
    /\ Idle
    /\ UNCHANGED probe
    /\ Joined
    /\ \E player \in Signers :
          LET res == resolve_hand_result(game, player)
              total_amount == game.pot + game.player1_bond + game.player2_bond
          IN  /\ call' = Call("resolve_hand", player, "-", 0, 0, <<>>)
              /\ result' = res
              /\ game' = account_after(res, game,
                                       resolve_hand_written(game, player, res))
              /\ IF res = "Ok" /\ game.stage # "Showdown"
                 THEN \E won \in {showdown_winnings(game, player1_score_of(game),
                                                     player2_score_of(game))} :
                      /\ game_vault' = game_vault - total_amount
                      /\ program_vault' = program_vault + total_amount
                      /\ balance' = update_player_stats(balance, won.p1_win,
                                                        won.p2_win)
                      /\ credits' = credits + 1
                 ELSE UNCHANGED <<balance, game_vault, program_vault, credits>>
    /\ UNCHANGED <<now, has_acted>>

(***************************************************************************)
(* claim_timeout (instructions/game_end.rs)                                *)
(***************************************************************************)
\* claim_timeout_result with both comparisons made non-strict
claim_timeout_result_at_deadline(g, player) ==
    LET elapsed == now - g.last_action_at
        is_timeout ==
            IF g.stage \in Player2ShareStages \cup {"AwaitingPlayer2ShowdownReveal"}
            THEN now >= g.reveal_deadline
            ELSE ~is_player_turn(g, player) /\ elapsed >= g.action_timeout
    IN  IF ~(elapsed >= g.action_timeout) THEN "TimeoutNotReached"
        ELSE IF ~is_timeout THEN "TimeoutNotReached"
        ELSE "Ok"

claim_timeout_result(g, player) ==
    LET elapsed == now - g.last_action_at
        is_timeout ==
            IF g.stage \in Player2ShareStages \cup {"AwaitingPlayer2ShowdownReveal"}
            THEN now > g.reveal_deadline
            ELSE ~is_player_turn(g, player) /\ elapsed > g.action_timeout
    IN  IF ~(elapsed > g.action_timeout) THEN "TimeoutNotReached"
        ELSE IF ~is_timeout THEN "TimeoutNotReached"
        ELSE "Ok"

claim_timeout_state(g, player) ==
    [g EXCEPT !.winner = player, !.stage = "Finished"]

\* claim_timeout_balance without the opponent's bond
claim_timeout_balance_own_bond(g, bal, player) ==
    LET is_player1 == player = g.player1
    IN  IF is_player1
        THEN [bal EXCEPT ![P1] = saturating_add(@, g.pot + g.player1_bond)]
        ELSE [bal EXCEPT ![P2] = saturating_add(@, g.pot + g.player2_bond)]

claim_timeout_balance(g, bal, player) ==
    LET is_player1 == player = g.player1
        winner_amount == g.pot + g.player1_bond + g.player2_bond
    IN  IF is_player1
        THEN [bal EXCEPT ![P1] = saturating_add(@, winner_amount)]
        ELSE [bal EXCEPT ![P2] = saturating_add(@, winner_amount)]

ClaimTimeout ==
    /\ Idle
    /\ UNCHANGED probe
    /\ Joined
    /\ \E player \in Signers :
          LET res == claim_timeout_result(game, player)
          IN  /\ call' = Call("claim_timeout", player, "-", 0, 0, <<>>)
              /\ result' = res
              /\ IF res = "Ok"
                 THEN /\ credits < MaxCredits
                      /\ game' = claim_timeout_state(game, player)
                      /\ balance' = claim_timeout_balance(game, balance, player)
                      /\ credits' = credits + 1
                      /\ has_acted' = {}
                 ELSE UNCHANGED <<game, balance, credits, has_acted>>
    /\ UNCHANGED <<game_vault, program_vault, now>>

(***************************************************************************)
(* The program                                                             *)
(***************************************************************************)
Next ==
    \/ Tick
    \/ Return
    \/ CreateGame
    \/ JoinGame
    \/ PlayerAction
    \/ AdvanceStreet
    \/ RevealCommunityCards
    \/ ResolveHand
    \/ ClaimTimeout

Spec == Init /\ [][Next]_vars

(***************************************************************************)
(* Vocabulary of the properties                                            *)
(***************************************************************************)
\* the instruction that has just been processed
Processed(op) == call'.op = op

Succeeded(op) == call'.op = op /\ result' = "Ok"

AllBonds(g) == g.player1_bond + g.player2_bond

(***************************************************************************)
(* C1  Chip conservation: in every state after join_game has succeeded,    *)
(* whatever bets, street advances, reveals and timeout claims follow,      *)
(* pot + player1_stack + player2_stack = 2 * stake_amount.                 *)
(***************************************************************************)
ChipConservation ==
    Joined =>
        game.pot + game.player1_stack + game.player2_stack = 2 * game.stake_amount

\* a raise was capped by an all-in opponent's empty stack, the hand went on to
\* a later street and was ended by a timeout claim
ChipConservationWitness ==
    /\ Joined
    /\ game.stage = "Finished"
    /\ game.player1_all_in
    /\ game.last_action = "Raise"
    /\ game.player2_current_bet = 0
    /\ game.community_cards_revealed >= 3
    /\ credits > 0
    /\ game.pot + game.player1_stack + game.player2_stack = 2 * game.stake_amount

(***************************************************************************)
(* C4  Fold: in a betting stage, a Fold by the player whose turn it is and *)
(* who is not all-in is accepted, sets that player's folded flag, records  *)
(* the opponent as winner and moves the stage to Finished, leaving pot,    *)
(* stacks and bets as they were.                                           *)
(***************************************************************************)
FoldEffects ==
    LET folder == call'.caller
        is_player1 == folder = game.player1
    IN  /\ result' = "Ok"
        /\ IF is_player1 THEN game'.player1_folded ELSE game'.player2_folded
        /\ game'.winner = get_other_player(game, folder)
        /\ game'.stage = "Finished"
        /\ game'.pot = game.pot
        /\ game'.player1_stack = game.player1_stack
        /\ game'.player2_stack = game.player2_stack
        /\ game'.player1_current_bet = game.player1_current_bet
        /\ game'.player2_current_bet = game.player2_current_bet

FoldByPlayerToAct ==
    /\ Processed("player_action")
    /\ call'.action = "Fold"
    /\ game.stage \in BettingStages
    /\ is_player_turn(game, call'.caller)

CallerAllIn ==
    IF call'.caller = game.player1 THEN game.player1_all_in ELSE game.player2_all_in

Player1ClaimsShareTimeout ==
    [][(/\ Processed("claim_timeout")
        /\ call'.caller = P1
        /\ game.stage \in Player2ShareStages
        /\ now > game.reveal_deadline)
       => /\ result' = "Ok"
          /\ balance'[P1] = balance[P1] + game.pot + AllBonds(game)
          /\ balance'[P2] = balance[P2]
          /\ game'.stage = "Finished"
          /\ game'.winner = P1]_vars

\* player 1 has just claimed the timeout of a turn share player 2 never sent
Player1ClaimsShareTimeoutWitness ==
    /\ call.op = "claim_timeout"
    /\ call.caller = P1
    /\ result = "Ok"
    /\ game.stage = "Finished"
    /\ game.winner = P1
    /\ game.player1_turn_share # 0
    /\ game.community_cards_revealed = 3
    /\ credits = 1
    /\ now > game.reveal_deadline
    /\ balance[P1] = Deposit - game.stake_amount + game.pot + game.player2_bond

(***************************************************************************)
(* C10  claim_timeout before the deadline: if now - last_action_at <=      *)
(* action_timeout, or in an AwaitingPlayer2 reveal stage now <=            *)
(* reveal_deadline, claim_timeout fails with TimeoutNotReached and the     *)
(* hand, its winner and both balances stay as they were.                   *)
(***************************************************************************)
DeadlineNotPassed(g) ==
    \/ now - g.last_action_at <= g.action_timeout
    \/ /\ g.stage \in Player2ShareStages \cup {"AwaitingPlayer2ShowdownReveal"}
       /\ now <= g.reveal_deadline

EarlyClaimRejected ==
    [][Processed("claim_timeout") /\ DeadlineNotPassed(game)
       => /\ result' = "TimeoutNotReached"
          /\ game' = game
          /\ balance' = balance]_vars

\* a claim made exactly at the deadline of player 2's flop share was refused
EarlyClaimRejectedWitness ==
    /\ call.op = "claim_timeout"
    /\ call.caller = P1
    /\ result = "TimeoutNotReached"
    /\ game.stage = "AwaitingPlayer2FlopShare"
    /\ now = game.reveal_deadline
    /\ now > 0

(***************************************************************************)
(* The showdown on its own.  No handler of the program stores a pocket     *)
(* hand, so a hand played through Spec reaches the second showdown reveal  *)
(* with player1_hand = player2_hand = [0, 0] and its scores tie.  To       *)
(* exercise resolve_hand on unequal scores, ShowdownSpec starts from a     *)
(* joined hand that stands at the second reveal with pocket hands on       *)
(* record, and runs the two handlers that can end it.                      *)
(***************************************************************************)
ShowdownBoard == <<49, 48, 47, 27, 14>>
ShowdownPockets == {<<<<51, 50>>, <<7, 6>>>>, <<<<7, 6>>, <<51, 50>>>>}
ShowdownPots == {4, 44, 200}

ShowdownGame(pockets, pot, first) ==
    LET deck == EncryptDeal(pockets[1] \o pockets[2] \o ShowdownBoard)
        joined == join_game_state(create_game_state(100, 3, 9), P2, 5, deck)
    IN  [joined EXCEPT
            !.stage = "AwaitingPlayer2ShowdownReveal",
            !.player1_hand = pockets[1],
            !.player2_hand = pockets[2],
            !.community_cards = ShowdownBoard,
            !.community_cards_revealed = 5,
            !.pot = pot,
            !.player1_stack = joined.stake_amount - pot \div 2,
            !.player2_stack = joined.stake_amount - pot \div 2,
            !.player1_current_bet = 0,
            !.player2_current_bet = 0,
            !.current_player = 1,
            !.last_action = "Check",
            !.player1_revealed_hand = (first = P1),
            !.player2_revealed_hand = (first = P2),
            !.reveal_deadline = now + joined.action_timeout]

ShowdownInit ==
    /\ now = 0
    /\ \E pockets \in ShowdownPockets, pot \in ShowdownPots, first \in {P1, P2} :
          game = ShowdownGame(pockets, pot, first)
    /\ balance = [p \in {P1, P2} |->
                    Deposit - (game.stake_amount + game.stake_amount \div 10)]
    /\ game_vault = 2 * (game.stake_amount + game.stake_amount \div 10)
    /\ program_vault = 2 * Deposit - game_vault
    /\ credits = 0
    /\ call = NoCall
    /\ result = "Ok"
    /\ has_acted = {}
    /\ probe = NoProbe

ShowdownNext ==
    \/ Tick
    \/ Return
    \/ ResolveHand
    \/ ClaimTimeout

ShowdownSpec == ShowdownInit /\ [][ShowdownNext]_vars

\* the second showdown reveal has just been accepted
SecondRevealSucceeded ==
    /\ Succeeded("resolve_hand")
    /\ game.stage = "AwaitingPlayer2ShowdownReveal"

OddChip(g, dealer) == IF g.dealer_button = dealer THEN g.pot % 2 ELSE 0

SplitPot ==
    [][(SecondRevealSucceeded /\ player1_score_of(game) = player2_score_of(game))
       => /\ game'.winner = None
          /\ balance'[P1] = balance[P1] + game.pot \div 2 + game.player1_bond
                               + OddChip(game, 1)
          /\ balance'[P2] = balance[P2] + game.pot \div 2 + game.player2_bond
                               + OddChip(game, 2)]_vars

(***************************************************************************)
(* C5  Fold settlement: once a hand is Finished by a fold, the balance     *)
(* that is credited for it is the non-folding player's, by pot + both      *)
(* bonds, and the folding player is credited nothing.                      *)
(***************************************************************************)
FinishedByFold(g) ==
    g.stage = "Finished" /\ (g.player1_folded \/ g.player2_folded)

FoldSettlement ==
    [][(FinishedByFold(game) /\ balance' # balance)
       => LET folder == IF game.player1_folded THEN P1 ELSE P2
              winner == IF game.player1_folded THEN P2 ELSE P1
          IN  /\ balance'[winner] = balance[winner] + game.pot + AllBonds(game)
              /\ balance'[folder] = balance[folder]]_vars

(***************************************************************************)
(* C6  Settlement runs once: the balances are credited for a hand by at    *)
(* most one settlement; once the hand is Finished and a settlement has     *)
(* credited it, no transition (a repeated or late claim_timeout or         *)
(* resolve_hand in particular) credits a balance again.                    *)
(***************************************************************************)
SettlementRunsOnce ==
    [][game.stage = "Finished" /\ credits >= 1 => balance' = balance]_vars

(***************************************************************************)
(* C8  Only the non-delinquent player wins by timeout: claim_timeout never *)
(* succeeds for the player whose action is awaited: the player to act in a *)
(* betting stage, player 1 in the Awaiting*Reveal stages, player 2 in the  *)
(* AwaitingPlayer2*Share stages, the player who has not revealed in        *)
(* AwaitingPlayer2ShowdownReveal.                                          *)
(***************************************************************************)
Awaited(g) ==
    CASE g.stage \in BettingStages ->
           IF g.current_player = 1 THEN g.player1 ELSE g.player2
      [] g.stage \in Player1RevealStages -> g.player1
      [] g.stage \in Player2ShareStages -> g.player2
      [] g.stage = "AwaitingPlayer2ShowdownReveal" ->
           IF g.player1_revealed_hand THEN g.player2 ELSE g.player1
      [] OTHER -> None

NoTimeoutWinForAwaited ==
    [][Succeeded("claim_timeout") => call'.caller # Awaited(game)]_vars

(***************************************************************************)
(* C9  Timeout recovery: in every state after join that is not Finished,   *)
(* in which one player's action is awaited and the applicable deadline has *)
(* passed, claim_timeout by the other player succeeds and ends the hand at *)
(* Finished with that player as winner.                                    *)
(***************************************************************************)
DeadlinePassed(g) ==
    IF g.stage \in Player2ShareStages \cup {"AwaitingPlayer2ShowdownReveal"}
    THEN now > g.reveal_deadline
    ELSE now - g.last_action_at > g.action_timeout

TimeoutRecovery ==
    [][(/\ Processed("claim_timeout")
        /\ Joined
        /\ Awaited(game) \in {P1, P2}
        /\ call'.caller \in {P1, P2} \ {Awaited(game)}
        /\ DeadlinePassed(game))
       => /\ result' = "Ok"
          /\ game'.stage = "Finished"
          /\ game'.winner = call'.caller]_vars

(***************************************************************************)
(* Player 2's reveal of community cards                                    *)
(***************************************************************************)
\* the deck slot of the k-th card revealed at a stage: 5..7 the flop, 8 the
\* turn, 9 the river
RevealSlot(stage, k) ==
    CASE stage = "AwaitingPlayer2FlopShare" -> 4 + k
      [] stage = "AwaitingPlayer2TurnShare" -> 8
      [] stage = "AwaitingPlayer2RiverShare" -> 9

PlaintextVerifies(g, plaintext) ==
    \A k \in 1..Len(plaintext) :
        verify_card(g, plaintext[k], g.encrypted_cards[RevealSlot(g.stage, k)])

\* a reveal of player 2 that passes the caller and the shape checks
WellFormedPlayer2Reveal ==
    /\ Processed("reveal_community_cards")
    /\ game.stage \in Player2ShareStages
    /\ call'.caller # game.player1
    /\ call'.shares = CardsOfStage(game.stage)
    /\ call'.plaintext # NoPlaintext
    /\ Len(call'.plaintext) = CardsOfStage(game.stage)

\* C11: when player 2 completes a community-card reveal and one of the
\* plaintext cards does not verify against its deck slot, the instruction
\* fails with CardVerificationFailed and the hand is unchanged.
MandatoryRevealVerification ==
    [][WellFormedPlayer2Reveal /\ ~PlaintextVerifies(game, call'.plaintext)
       => result' = "CardVerificationFailed" /\ game' = game]_vars

(***************************************************************************)
(* The second reveal of the showdown                                       *)
(***************************************************************************)
\* the four pocket cards on record are the cards of deck slots 1..4
PocketsMatchDeck(g) ==
    \A k \in 1..2 :
        /\ verify_card(g, g.player1_hand[k], g.encrypted_cards[k])
        /\ verify_card(g, g.player2_hand[k], g.encrypted_cards[2 + k])

\* resolve_hand by a signer whose side has not revealed yet
SecondReveal ==
    /\ Processed("resolve_hand")
    /\ game.stage = "AwaitingPlayer2ShowdownReveal"
    /\ IF call'.caller = game.player1
       THEN ~game.player1_revealed_hand
       ELSE ~game.player2_revealed_hand

\* C12: the second reveal of the showdown finishes the hand and credits a
\* balance only if all four pocket cards verify against deck slots 1..4;
\* otherwise it fails with CardVerificationFailed, the stage stays
\* AwaitingPlayer2ShowdownReveal and no balance is credited.
VerifiedShowdown ==
    [][SecondReveal =>
         /\ (game'.stage = "Finished" \/ balance' # balance) => PocketsMatchDeck(game)
         /\ ~PocketsMatchDeck(game) =>
               /\ result' = "CardVerificationFailed"
               /\ game' = game
               /\ balance' = balance]_vars

VerifiedShowdownWitness ==
    /\ call.op = "resolve_hand"
    /\ result = "CardVerificationFailed"
    /\ game.stage = "AwaitingPlayer2ShowdownReveal"
    /\ ~PocketsMatchDeck(game)

(***************************************************************************)
(* The order of the stages                                                 *)
(***************************************************************************)
GameStage ==
    <<"WaitingForPlayer2", "PreFlopBetting",
      "AwaitingFlopReveal", "AwaitingPlayer2FlopShare", "PostFlopBetting",
      "AwaitingTurnReveal", "AwaitingPlayer2TurnShare", "PostTurnBetting",
      "AwaitingRiverReveal", "AwaitingPlayer2RiverShare", "PostRiverBetting",
      "Showdown", "AwaitingPlayer2ShowdownReveal", "Finished">>

StageRank(stage) == CHOOSE k \in 1..Len(GameStage) : GameStage[k] = stage

\* C13: along every execution the stage never moves to an earlier stage: a
\* step leaves it unchanged, moves it to its immediate successor, or moves
\* it to Finished.
StageMonotonicity ==
    [][Created =>
         \/ game'.stage = game.stage
         \/ StageRank(game'.stage) = StageRank(game.stage) + 1
         \/ game'.stage = "Finished"]_vars

\* a timeout claim has ended a hand in the middle of the flop
StageMonotonicityWitness ==
    /\ call.op = "claim_timeout"
    /\ result = "Ok"
    /\ game.stage = "Finished"
    /\ game.community_cards_revealed = 3

(***************************************************************************)
(* Betting: hands that player 2 has just joined, with two stakes, followed *)
(* through their betting rounds and reveals at one clock value             *)
(***************************************************************************)
BettingInit ==
    /\ now = 0
    /\ \E stake \in BettingStakes :
          game = join_game_state(create_game_state(stake, 3, 9), P2, 5, HonestDeck)
    /\ balance = [p \in {P1, P2} |->
                    Deposit - (game.stake_amount + game.stake_amount \div 10)]
    /\ game_vault = 2 * (game.stake_amount + game.stake_amount \div 10)
    /\ program_vault = 2 * Deposit - game_vault
    /\ credits = 0
    /\ call = NoCall
    /\ result = "Ok"
    /\ has_acted = {}
    /\ probe = NoProbe

BettingNext ==
    \/ Return
    \/ PlayerAction
    \/ AdvanceStreet
    \/ RevealCommunityCards

BettingSpec == BettingInit /\ [][BettingNext]_vars

\* C14: after every successful Check, Call, Raise or AllIn the turn is on
\* the opponent of the player who acted.
TurnAlternation ==
    [][Succeeded("player_action")
       /\ call'.action \in {"Check", "Call", "Raise", "AllIn"}
       => /\ is_player_turn(game', get_other_player(game, call'.caller))
          /\ ~is_player_turn(game', call'.caller)]_vars

TurnAlternationWitness ==
    /\ call.op = "player_action"
    /\ call.action = "Raise"
    /\ call.caller = P2
    /\ result = "Ok"
    /\ game.current_player = 1

(***************************************************************************)
(* Who opens a betting round                                               *)
(***************************************************************************)
PostFlopStages == {"PostFlopBetting", "PostTurnBetting", "PostRiverBetting"}

\* C15: when a hand enters PreFlopBetting the turn is on the dealer (the
\* small blind); when it enters PostFlopBetting, PostTurnBetting or
\* PostRiverBetting the turn is on the non-dealer.
InitialActor ==
    [][game'.stage # game.stage =>
         /\ game'.stage = "PreFlopBetting" =>
               game'.current_player = game'.dealer_button
         /\ game'.stage \in PostFlopStages =>
               /\ game'.current_player \in {1, 2}
               /\ game'.current_player # game'.dealer_button]_vars

\* the flop round opens on player 2 although the pre-flop round ended with
\* the turn on player 1: player 2 went all-in last and player 1 never called
InitialActorWitness ==
    /\ call.op = "reveal_community_cards"
    /\ result = "Ok"
    /\ game.stage = "PostFlopBetting"
    /\ game.dealer_button = 1
    /\ game.current_player = 2
    /\ game.player2_all_in
    /\ ~game.player1_all_in
    /\ game.player1_stack > 0

(***************************************************************************)
(* Raises                                                                  *)
(***************************************************************************)
\* what the caller of the pending player_action has to add to match the
\* opponent's bet, and the caller's stack, before the action
CallAmount ==
    LET is_player1 == call'.caller = game.player1
    IN  saturating_sub(current_bet_of(game, ~is_player1),
                       current_bet_of(game, is_player1))

CallerStack == stack_of(game, call'.caller = game.player1)

\* a Raise(r) of the player to act, who can afford the call plus r
AffordableRaise ==
    /\ Processed("player_action")
    /\ call'.action = "Raise"
    /\ call'.amount # NoAmount
    /\ game.stage \in BettingStages
    /\ is_player_turn(game, call'.caller)
    /\ ~CallerAllIn
    /\ CallerStack >= CallAmount + call'.amount

\* C16: a Raise(r) that the player can afford is rejected with
\* MinimumRaiseNotMet, leaving the hand unchanged, when r is below the call
\* amount and is not the whole of what the stack leaves after the call; it
\* is accepted when r is at least the call amount or is exactly that rest.
MinimumRaise ==
    [][AffordableRaise =>
         IF call'.amount < CallAmount /\ call'.amount # CallerStack - CallAmount
         THEN result' = "MinimumRaiseNotMet" /\ game' = game
         ELSE result' = "Ok"]_vars

\* a raise below the call amount that takes the whole stack has succeeded
MinimumRaiseWitness ==
    /\ call.op = "player_action"
    /\ call.action = "Raise"
    /\ result = "Ok"
    /\ stack_of(game, call.caller = game.player1) = 0
    /\ current_bet_of(game, call.caller = game.player1)
         < 2 * current_bet_of(game, call.caller # game.player1)

\* a raise below the call amount has been rejected
MinimumRaiseRejected ==
    /\ call.op = "player_action"
    /\ call.action = "Raise"
    /\ result = "MinimumRaiseNotMet"

(***************************************************************************)
(* The end of a betting round                                              *)
(***************************************************************************)
NoFoldNoAllIn(g) ==
    /\ ~g.player1_folded /\ ~g.player2_folded
    /\ ~g.player1_all_in /\ ~g.player2_all_in

\* C17: when nobody has folded and nobody is all-in, advance_street succeeds
\* from a betting stage only if the two current bets are equal and each of
\* the two players has acted at least once since the round started.
RoundCompletion ==
    [][Succeeded("advance_street") /\ game.stage \in BettingStages
       /\ NoFoldNoAllIn(game)
       => /\ game.player1_current_bet = game.player2_current_bet
          /\ has_acted = {1, 2}]_vars

(***************************************************************************)
(* Signers that are not in the hand                                        *)
(***************************************************************************)
PlayerInstructions ==
    {"player_action", "reveal_community_cards", "resolve_hand", "claim_timeout"}

\* C18: once player 2 has joined, a player_action, reveal_community_cards,
\* resolve_hand or claim_timeout signed by a key that is neither player 1
\* nor player 2 fails and leaves the hand and the balances unchanged.
OnlyPlayersDriveHand ==
    [][Joined /\ call'.op \in PlayerInstructions
       /\ call'.caller \notin {game.player1, game.player2}
       => /\ result' # "Ok"
          /\ game' = game
          /\ balance' = balance]_vars

(***************************************************************************)
(* The order of the checks of a handler                                    *)
(***************************************************************************)
\* C19: the stage is checked before anything else: join_game on a hand that
\* is not in WaitingForPlayer2 fails with InvalidGameStage whatever its
\* inputs are, and player_action and reveal_community_cards in a stage that
\* is not theirs fail with InvalidGameStage whoever calls them.
StageCheckedFirst ==
    [][Created =>
         /\ Processed("join_game") /\ game.stage # "WaitingForPlayer2"
               => result' = "InvalidGameStage"
         /\ Processed("player_action") /\ game.stage \notin BettingStages
               => result' = "InvalidGameStage"
         /\ Processed("reveal_community_cards")
            /\ game.stage \notin Player1RevealStages \cup Player2ShareStages
               => result' = "InvalidGameStage"]_vars

(***************************************************************************)
(* Failed instructions                                                     *)
(***************************************************************************)
\* C20: an instruction that returns an error leaves every field of the hand,
\* both ledger balances and both vaults as they were.
AllOrNothing ==
    [][result' # "Ok" =>
         /\ game' = game
         /\ balance' = balance
         /\ game_vault' = game_vault
         /\ program_vault' = program_vault]_vars

\* the second reveal has failed after the handler had set the caller's
\* revealed flag: the flag on record is still unset
AllOrNothingWitness ==
    /\ call.op = "resolve_hand"
    /\ call.caller = P2
    /\ result = "CardVerificationFailed"
    /\ game.player1_revealed_hand
    /\ ~game.player2_revealed_hand

(***************************************************************************)
(* The hand evaluator, applied to pairs of five-card hands                 *)
(***************************************************************************)
\* cards are suit * 13 + rank, rank 0 = deuce .. 12 = ace; suits 0..3
\* fourteen cards: 2 3 4 5 6 A of suit 0, 2 3 A of suit 1, 2 3 A of suit 2,
\* 2 K of suit 3
Subdeck == {0, 1, 2, 3, 4, 12, 13, 14, 25, 26, 27, 38, 39, 50}

RECURSIVE AscendingSeq(_)
AscendingSeq(S) ==
    IF S = {} THEN <<>>
    ELSE LET least == CHOOSE x \in S : \A y \in S : x <= y
         IN  <<least>> \o AscendingSeq(S \ {least})

\* every five-card hand of the subdeck
SubdeckHands == {AscendingSeq(S) : S \in {T \in SUBSET Subdeck : Cardinality(T) = 5}}

\* hands of every category, in the order they were dealt
ReferenceHands ==
    {<<51, 50, 49, 48, 47>>,      \* royal flush
     <<8, 9, 10, 11, 12>>,        \* royal flush, low card first
     <<50, 49, 48, 47, 46>>,      \* straight flush, king high
     <<30, 26, 28, 27, 29>>,      \* straight flush, six high
     <<38, 26, 27, 28, 29>>,      \* straight flush, five high (the wheel)
     <<12, 25, 38, 51, 50>>,      \* four aces, king
     <<0, 13, 26, 39, 1>>,        \* four deuces, three
     <<0, 13, 26, 39, 51>>,       \* four deuces, ace
     <<12, 25, 38, 50, 37>>,      \* aces full of kings
     <<11, 24, 37, 12, 25>>,      \* kings full of aces
     <<0, 13, 26, 1, 14>>,        \* deuces full of threes
     <<51, 49, 46, 42, 40>>,      \* flush, ace high
     <<13, 14, 15, 16, 18>>,      \* flush, seven high
     <<51, 24, 10, 35, 8>>,       \* straight, ace high
     <<17, 3, 15, 27, 0>>,        \* straight, six high
     <<12, 14, 0, 28, 42>>,       \* straight, five high (the wheel)
     <<12, 25, 38, 50, 10>>,      \* three aces
     <<1, 14, 27, 12, 11>>,       \* three threes
     <<12, 25, 11, 24, 10>>,      \* aces and kings
     <<1, 14, 0, 13, 51>>,        \* threes and deuces, ace
     <<1, 14, 0, 13, 50>>,        \* threes and deuces, king
     <<12, 25, 11, 10, 9>>,       \* pair of aces
     <<0, 13, 12, 11, 10>>,       \* pair of deuces, ace king queen
     <<0, 13, 12, 11, 9>>,        \* pair of deuces, ace king jack
     <<12, 24, 10, 9, 7>>,        \* ace high
     <<12, 24, 10, 9, 6>>,        \* ace high, lower last card
     <<5, 16, 2, 1, 0>>}          \* seven high

\* the ranking of five-card hands by the rules of poker
ValuesOf(hand) == {rank(hand[i]) + 2 : i \in 1..5}

TimesIn(hand, v) == Cardinality({i \in 1..5 : rank(hand[i]) + 2 = v})

IsFlushHand(hand) == \E su \in 0..3 : \A i \in 1..5 : suit(hand[i]) = su

IsWheelHand(hand) == ValuesOf(hand) = {14, 2, 3, 4, 5}

IsStraightHand(hand) ==
    \/ \E low \in 2..10 : ValuesOf(hand) = low..(low + 4)
    \/ IsWheelHand(hand)

CanonicalCategory(hand) ==
    LET times == {TimesIn(hand, v) : v \in ValuesOf(hand)}
    IN  IF IsStraightHand(hand) /\ IsFlushHand(hand)
        THEN IF ValuesOf(hand) = 10..14 THEN 9 ELSE 8
        ELSE IF 4 \in times THEN 7
        ELSE IF times = {3, 2} THEN 6
        ELSE IF IsFlushHand(hand) THEN 5
        ELSE IF IsStraightHand(hand) THEN 4
        ELSE IF 3 \in times THEN 3
        ELSE IF Cardinality(ValuesOf(hand)) = 3 THEN 2
        ELSE IF Cardinality(ValuesOf(hand)) = 4 THEN 1
        ELSE 0

\* what decides between two hands of one category, most significant first:
\* the values of the hand, those held more often first and then the higher
\* first; of a straight only its top card, which is the five in the wheel
RECURSIVE ByWeight(_, _)
ByWeight(hand, V) ==
    IF V = {} THEN <<>>
    ELSE LET top == CHOOSE v \in V : \A w \in V :
                       \/ TimesIn(hand, v) > TimesIn(hand, w)
                       \/ TimesIn(hand, v) = TimesIn(hand, w) /\ v >= w
         IN  <<top>> \o ByWeight(hand, V \ {top})

Deciders(hand) ==
    IF IsStraightHand(hand)
    THEN IF IsWheelHand(hand) THEN <<5>>
         ELSE <<CHOOSE v \in ValuesOf(hand) : \A w \in ValuesOf(hand) : v >= w>>
    ELSE ByWeight(hand, ValuesOf(hand))

RECURSIVE LexGreater(_, _)
LexGreater(s, t) ==
    IF s = <<>> \/ t = <<>> THEN FALSE
    ELSE \/ Head(s) > Head(t)
         \/ Head(s) = Head(t) /\ LexGreater(Tail(s), Tail(t))

Outranks(a, b) ==
    LexGreater(<<CanonicalCategory(a)>> \o Deciders(a),
               <<CanonicalCategory(b)>> \o Deciders(b))

TiesWith(a, b) ==
    /\ CanonicalCategory(a) = CanonicalCategory(b)
    /\ Deciders(a) = Deciders(b)

EvalInit ==
    /\ game = NoGame
    /\ balance = [p \in {P1, P2} |-> Deposit]
    /\ game_vault = 0
    /\ program_vault = 2 * Deposit
    /\ now = 0
    /\ credits = 0
    /\ call = NoCall
    /\ result = "Ok"
    /\ has_acted = {}
    /\ \E a \in SubdeckHands \cup ReferenceHands, b \in ReferenceHands :
          probe = [fn |-> "evaluate_hand", args |-> <<a, b>>, value |-> <<>>]

\* poker::evaluate_hand is applied to the two hands
EvaluateHands ==
    /\ probe.fn = "evaluate_hand"
    /\ probe.value = <<>>
    /\ probe' = [probe EXCEPT !.value = <<evaluate_hand(probe.args[1]),
                                          evaluate_hand(probe.args[2])>>]
    /\ UNCHANGED <<game, balance, game_vault, program_vault, now, credits, call,
                   result, has_acted>>

EvalNext == EvaluateHands

EvalSpec == EvalInit /\ [][EvalNext]_vars

Evaluated == probe.fn = "evaluate_hand" /\ probe.value # <<>>

\* C21: the score of hand A is greater than the score of hand B exactly
\* when A outranks B by the rules of poker, and the scores are equal exactly
\* when the hands tie; the wheel straight flush is category 8 with top card
\* 5, below the six-high straight flush and the royal flush.
EvaluatorOrdering ==
    Evaluated =>
        /\ probe.value[1] > probe.value[2] <=> Outranks(probe.args[1], probe.args[2])
        /\ probe.value[1] = probe.value[2] <=> TiesWith(probe.args[1], probe.args[2])
        /\ IsWheelHand(probe.args[1]) /\ IsFlushHand(probe.args[1])
              => probe.value[1] = Shl(8, 20) + Shl(5, 16)

\* the wheel straight flush has been scored against the six-high one
EvaluatorOrderingWitness ==
    /\ Evaluated
    /\ probe.args = << <<0, 1, 2, 3, 12>>, <<30, 26, 28, 27, 29>> >>
    /\ probe.value[1] < probe.value[2]

\* C22: the category field of the score of every hand is the category of
\* the hand by the rules of poker (0 high card .. 9 royal flush).
EvaluatorCategory ==
    Evaluated =>
        /\ probe.value[1] \div Pow2(20) = CanonicalCategory(probe.args[1])
        /\ probe.value[2] \div Pow2(20) = CanonicalCategory(probe.args[2])

\* a full house of the subdeck has been scored
EvaluatorCategoryWitness ==
    /\ Evaluated
    /\ probe.args[1] = <<0, 1, 13, 14, 26>>
    /\ probe.value[1] \div Pow2(20) = 6

(***************************************************************************)
(* The cipher, applied to one card under two keys in both orders           *)
(***************************************************************************)
Cards == 0..51

\* player 1's key runs over all valid keys, player 2's over the least, the
\* greatest and some keys between
ValidKeys == 2..(PRIME - 1)
Player2KeySamples == {2, 3, 5, 113, PRIME - 2, PRIME - 1}

CipherInit ==
    /\ game = NoGame
    /\ balance = [p \in {P1, P2} |-> Deposit]
    /\ game_vault = 0
    /\ program_vault = 2 * Deposit
    /\ now = 0
    /\ credits = 0
    /\ call = NoCall
    /\ result = "Ok"
    /\ has_acted = {}
    /\ \E m \in Cards, pk1 \in ValidKeys, pk2 \in Player2KeySamples :
          probe = [fn |-> "verify_card", args |-> <<m, pk1, pk2>>, value |-> <<>>]

\* the card is encrypted under the two keys in both orders and each
\* ciphertext is verified by a hand that holds the two keys
VerifyBothOrders ==
    /\ probe.fn = "verify_card"
    /\ probe.value = <<>>
    /\ LET m == probe.args[1]
           pk1 == probe.args[2]
           pk2 == probe.args[3]
           g == [NoGame EXCEPT !.player1_ephemeral_pubkey = pk1,
                               !.player2_ephemeral_pubkey = pk2]
           c12 == encrypt_card_bytes(encrypt_card(m, pk1), pk2)
           c21 == encrypt_card_bytes(encrypt_card(m, pk2), pk1)
       IN  probe' = [probe EXCEPT !.value = <<verify_card(g, m, c12),
                                              verify_card(g, m, c21), c12, c21>>]
    /\ UNCHANGED <<game, balance, game_vault, program_vault, now, credits, call,
                   result, has_acted>>

CipherNext == VerifyBothOrders

CipherSpec == CipherInit /\ [][CipherNext]_vars

keccak(data) == <<"keccak", data>>

RECURSIVE merkle_loop_left_only(_, _, _)
merkle_loop_left_only(current_hash, proof, k) ==
    IF k > Len(proof) THEN current_hash
    ELSE merkle_loop_left_only(keccak(<<current_hash, proof[k]>>), proof, k + 1)

\* verify_merkle_proof that takes the current node for a left child at
\* every level
verify_merkle_proof_left_only(card, proof, root, index) ==
    merkle_loop_left_only(keccak(<<card>>), proof, 1) = root

RECURSIVE merkle_loop(_, _, _, _)
merkle_loop(current_hash, current_index, proof, k) ==
    IF k > Len(proof) THEN current_hash
    ELSE LET proof_element == proof[k]
             combined == IF current_index % 2 = 0
                         THEN <<current_hash, proof_element>>
                         ELSE <<proof_element, current_hash>>
         IN  merkle_loop(keccak(combined), current_index \div 2, proof, k + 1)

verify_merkle_proof(card, proof, root, index) ==
    merkle_loop(keccak(<<card>>), index, proof, 1) = root

\* the height of the committed tree; the deck has 2^MerkleDepth cards
MerkleDepth == 3

\* player 1's singly-encrypted deck under key pk1
CommittedDeck(pk1) == [i \in 1..Pow2(MerkleDepth) |-> encrypt_card(i - 1, pk1)]

\* the node at position p (from 0) of level l (leaves at level 0) of the
\* tree built over the deck: a leaf is the digest of its card, an inner
\* node the digest of its left child followed by its right child
RECURSIVE merkle_node(_, _, _)
merkle_node(deck, l, p) ==
    IF l = 0 THEN keccak(<<deck[p + 1]>>)
    ELSE keccak(<<merkle_node(deck, l - 1, 2 * p),
                  merkle_node(deck, l - 1, 2 * p + 1)>>)

merkle_root(deck) == merkle_node(deck, MerkleDepth, 0)

\* the sibling path of the leaf at index, from the leaf level upwards
merkle_proof(deck, index) ==
    [k \in 1..MerkleDepth |->
        LET p == index \div Pow2(k - 1)
        IN  merkle_node(deck, k - 1, IF p % 2 = 0 THEN p + 1 ELSE p - 1)]

\* every digest of the tree, and two digests that are not part of it
TreeDigests(deck) ==
    UNION {{merkle_node(deck, l, p) : p \in 0..(Pow2(MerkleDepth - l) - 1)} :
              l \in 0..MerkleDepth}
        \cup {keccak(<<0>>), keccak(<<keccak(<<0>>), keccak(<<0>>)>>)}

MerkleKeys == {3, 5}

MerkleInit ==
    /\ game = NoGame
    /\ balance = [p \in {P1, P2} |-> Deposit]
    /\ game_vault = 0
    /\ program_vault = 2 * Deposit
    /\ now = 0
    /\ credits = 0
    /\ call = NoCall
    /\ result = "Ok"
    /\ has_acted = {}
    /\ \E pk1 \in MerkleKeys, index \in 0..(Pow2(MerkleDepth) - 1) :
          LET deck == CommittedDeck(pk1)
              card == deck[index + 1]
              proof == merkle_proof(deck, index)
              root == merkle_root(deck)
              Probe(c, pr, r, tampered) ==
                  probe = [fn |-> "verify_merkle_proof",
                           args |-> <<c, pr, r, index, tampered>>, value |-> <<>>]
          IN  \/ Probe(card, proof, root, "none")
              \/ \E c \in 0..(PRIME - 1) :
                    c # card /\ Probe(c, proof, root, "leaf")
              \/ \E r \in TreeDigests(deck) :
                    r # root /\ Probe(card, proof, r, "root")
              \/ \E k \in 1..MerkleDepth, h \in TreeDigests(deck) :
                    h # proof[k] /\ Probe(card, [proof EXCEPT ![k] = h], root, "sibling")

VerifyMerkleProof ==
    /\ probe.fn = "verify_merkle_proof"
    /\ probe.value = <<>>
    /\ probe' = [probe EXCEPT !.value =
                    <<verify_merkle_proof(probe.args[1], probe.args[2],
                                          probe.args[3], probe.args[4])>>]
    /\ UNCHANGED <<game, balance, game_vault, program_vault, now, credits, call,
                   result, has_acted>>

MerkleNext == VerifyMerkleProof

MerkleSpec == MerkleInit /\ [][MerkleNext]_vars

\* C24: over an honestly built tree, the leaf at every index verifies with
\* its sibling path against the root, and verification fails once the
\* leaf, the root or any one sibling digest is replaced by another value.
MerkleRoundTrip ==
    probe.fn = "verify_merkle_proof" /\ probe.value # <<>> =>
        probe.value[1] = (probe.args[5] = "none")

MerkleRoundTripWitness ==
    /\ probe.fn = "verify_merkle_proof"
    /\ probe.args[4] = 5
    /\ probe.args[5] = "none"
    /\ probe.value = <<TRUE>>

MerkleTamperedWitness ==
    /\ probe.fn = "verify_merkle_proof"
    /\ probe.args[4] = 6
    /\ probe.args[5] = "sibling"
    /\ probe.value = <<FALSE>>

(***************************************************************************)
(* The shuffle of the single-program version (tilt_programs/src/state.rs)  *)
(***************************************************************************)
\* the number of cards of the shuffled deck (52 in the program)
DeckSize == 5

\* the seed is represented by the words its keccak chain yields: the word
\* for position i is the leading four bytes of the digest drawn when the
\* loop is at i, so equal seeds have equal words
seed_word(combined_seed, i) == combined_seed[i]

swap(deck, i, j) == [deck EXCEPT ![i + 1] = deck[j + 1], ![j + 1] = deck[i + 1]]

RECURSIVE shuffle_loop(_, _, _)
shuffle_loop(deck, combined_seed, i) ==
    IF i < 1 THEN deck
    ELSE LET j == seed_word(combined_seed, i) % (i + 1)
         IN  shuffle_loop(swap(deck, i, j), combined_seed, i - 1)

\* initialize_deck that shuffles the deck it finds
initialize_deck_no_reset(deck, combined_seed) ==
    shuffle_loop(deck, combined_seed, DeckSize - 1)

initialize_deck(deck, combined_seed) ==
    LET ordered == [i \in 1..DeckSize |-> i - 1]
    IN  shuffle_loop(ordered, combined_seed, DeckSize - 1)

\* the words a seed can yield, before the reduction modulo i + 1
SeedWords == 0..DeckSize

\* the deck of a new account is zeroed; an account may also hold the deck
\* of an earlier shuffle
PriorDecks ==
    {[i \in 1..DeckSize |-> 0], [i \in 1..DeckSize |-> i - 1],
     [i \in 1..DeckSize |-> DeckSize - i]}

ShuffleInit ==
    /\ game = NoGame
    /\ balance = [p \in {P1, P2} |-> Deposit]
    /\ game_vault = 0
    /\ program_vault = 2 * Deposit
    /\ now = 0
    /\ credits = 0
    /\ call = NoCall
    /\ result = "Ok"
    /\ has_acted = {}
    /\ \E combined_seed \in [1..(DeckSize - 1) -> SeedWords], deck \in PriorDecks :
          probe = [fn |-> "initialize_deck", args |-> <<deck, combined_seed>>,
                   value |-> <<>>]

\* the deck is shuffled once in a new account and once in the account the
\* probe holds, with the same seed
InitializeDeck ==
    /\ probe.fn = "initialize_deck"
    /\ probe.value = <<>>
    /\ probe' = [probe EXCEPT !.value =
                    <<initialize_deck([i \in 1..DeckSize |-> 0], probe.args[2]),
                      initialize_deck(probe.args[1], probe.args[2])>>]
    /\ UNCHANGED <<game, balance, game_vault, program_vault, now, credits, call,
                   result, has_acted>>

ShuffleNext == InitializeDeck

ShuffleSpec == ShuffleInit /\ [][ShuffleNext]_vars

IsPermutation(deck) ==
    /\ Len(deck) = DeckSize
    /\ \A c \in 0..(DeckSize - 1) : Cardinality({i \in 1..DeckSize : deck[i] = c}) = 1

\* C25: for every seed the shuffled deck holds each card exactly once, and
\* two runs with the same seed leave the same deck.
ShufflePermutation ==
    probe.fn = "initialize_deck" /\ probe.value # <<>> =>
        /\ IsPermutation(probe.value[1])
        /\ IsPermutation(probe.value[2])
        /\ probe.value[1] = probe.value[2]

ShufflePermutationWitness ==
    /\ probe.fn = "initialize_deck"
    /\ probe.value # <<>>
    /\ probe.args[1] = [i \in 1..DeckSize |-> DeckSize - i]
    /\ probe.value[2] # [i \in 1..DeckSize |-> i - 1]
    /\ probe.value[2][1] = DeckSize - 1

(***************************************************************************)
(* Entry into a hand: create_game and join_game from ledgers of several    *)
(* sizes                                                                   *)
(***************************************************************************)
\* ledger balances just below and at the cost of a stake of 100, and at
\* the cost of a stake of 1000
EntryDeposits == {109, 110, 1100}

EntryInit ==
    /\ game = NoGame
    /\ balance \in [{P1, P2} -> EntryDeposits]
    /\ game_vault = 0
    /\ program_vault = balance[P1] + balance[P2]
    /\ now = 0
    /\ credits = 0
    /\ call = NoCall
    /\ result = "Ok"
    /\ has_acted = {}
    /\ probe = NoProbe

EntryNext == Return \/ CreateGame \/ JoinGame

EntrySpec == EntryInit /\ [][EntryNext]_vars

\* C26: a successful join of a hand dealt by player 1 leaves the stage
\* PreFlopBetting, the bets (SB, BB), the stacks (stake - SB, stake - BB),
\* the pot SB + BB and the turn with player 1, where SB = stake / 100 and
\* BB = stake / 50, and stores the nine submitted encrypted cards unchanged.
JoinEffects ==
    [][Succeeded("join_game") /\ game.dealer_button = 1 =>
          LET stake == game.stake_amount
              SB == stake \div 100
              BB == stake \div 50
          IN  /\ game'.stage = "PreFlopBetting"
              /\ game'.player1_current_bet = SB
              /\ game'.player2_current_bet = BB
              /\ game'.player1_stack = stake - SB
              /\ game'.player2_stack = stake - BB
              /\ game'.pot = SB + BB
              /\ game'.current_player = 1
              /\ game'.encrypted_cards = call'.plaintext]_vars

\* the joined hand of stake 1000: pot 30, stacks (990, 980), bets (10, 20)
JoinEffectsWitness ==
    /\ call.op = "join_game"
    /\ result = "Ok"
    /\ game.stake_amount = 1000
    /\ game.stage = "PreFlopBetting"
    /\ game.pot = 30
    /\ game.player1_stack = 990
    /\ game.player2_stack = 980
    /\ game.player1_current_bet = 10
    /\ game.player2_current_bet = 20
    /\ game.current_player = 1
    /\ game.encrypted_cards = HonestDeck

EntryCost(stake_amount) == stake_amount + stake_amount \div 10

\* C27: create_game succeeds only with a positive stake, a nonzero key, a
\* nonzero Merkle root and a balance of at least stake + stake / 10; on
\* success it debits exactly that amount from the caller and records the
\* bond stake / 10, player 1's stack = stake, the dealer = player 1 and the
\* stage WaitingForPlayer2.  join_game debits exactly stake + stake / 10
\* from the joiner, or fails on a smaller balance and leaves the balances
\* unchanged.
EntryEscrow ==
    [][/\ Succeeded("create_game") =>
            LET stake_amount == call'.amount
            IN  /\ stake_amount > 0
                /\ game'.player1_ephemeral_pubkey # 0
                /\ game'.deck_merkle_root # 0
                /\ balance[call'.caller] >= EntryCost(stake_amount)
                /\ balance' = [balance EXCEPT
                                  ![call'.caller] = @ - EntryCost(stake_amount)]
                /\ game'.player1_bond = stake_amount \div 10
                /\ game'.player1_stack = stake_amount
                /\ game'.player1 = call'.caller
                /\ game'.dealer_button = 1
                /\ game'.stage = "WaitingForPlayer2"
       /\ Succeeded("join_game") =>
            /\ balance[call'.caller] >= EntryCost(game.stake_amount)
            /\ balance' = [balance EXCEPT
                              ![call'.caller] = @ - EntryCost(game.stake_amount)]
            /\ game'.player2_bond = game.stake_amount \div 10
       /\ Processed("join_game") /\ result' = "InsufficientBalanceToJoin" =>
            /\ balance[call'.caller] < EntryCost(game.stake_amount)
            /\ balance' = balance
       /\ Processed("join_game")
              /\ balance[call'.caller] < EntryCost(game.stake_amount) =>
            /\ result' # "Ok"
            /\ balance' = balance]_vars

\* a hand of stake 100 created from a ledger of exactly 110
EntryEscrowWitness ==
    /\ call.op = "create_game"
    /\ result = "Ok"
    /\ call.amount = 100
    /\ balance[P1] = 0
    /\ game.player1_bond = 10
    /\ game.stage = "WaitingForPlayer2"

\* a join refused for a ledger of 109 against a cost of 110
EntryEscrowRefusedWitness ==
    /\ call.op = "join_game"
    /\ result = "InsufficientBalanceToJoin"
    /\ game.stake_amount = 100
    /\ balance[P2] = 109

\* a create refused for a ledger of 109 against a cost of 110
EntryEscrowCreateRefusedWitness ==
    /\ call.op = "create_game"
    /\ result = "InsufficientBalanceToJoin"
    /\ call.amount = 100
    /\ balance[P1] = 109

(***************************************************************************)
(* The chips a betting action moves                                        *)
(***************************************************************************)
ActorIsPlayer1 == call'.caller = game.player1

all_in_of(g, is_player1) == IF is_player1 THEN g.player1_all_in ELSE g.player2_all_in

Least(a, b) == IF a <= b THEN a ELSE b

SucceededAction(action) == Succeeded("player_action") /\ call'.action = action

\* C28: a successful Call moves delta = min(b_j - b_i, s_i) chips: the
\* caller's round bet and the pot grow by delta, the caller's stack shrinks
\* by delta, the opponent's bet and stack stay, and the caller is all-in
\* afterwards exactly when the stack was smaller than b_j - b_i.
CallMovesDelta ==
    [][SucceededAction("Call") =>
          LET i == ActorIsPlayer1
              b_i == current_bet_of(game, i)
              b_j == current_bet_of(game, ~i)
              s_i == stack_of(game, i)
              delta == Least(b_j - b_i, s_i)
          IN  /\ current_bet_of(game', i) = b_i + delta
              /\ game'.pot = game.pot + delta
              /\ stack_of(game', i) = s_i - delta
              /\ current_bet_of(game', ~i) = b_j
              /\ stack_of(game', ~i) = stack_of(game, ~i)
              /\ all_in_of(game', i) = (s_i < b_j - b_i)]_vars

\* a call of exactly the caller's stack, answering an all-in: the stack is
\* empty afterwards and the caller is not marked all-in
CallMovesDeltaWitness ==
    /\ call.op = "player_action"
    /\ call.action = "Call"
    /\ result = "Ok"
    /\ stack_of(game, call.caller = game.player1) = 0
    /\ ~all_in_of(game, call.caller = game.player1)
    /\ all_in_of(game, call.caller # game.player1)
    /\ game.player1_current_bet = game.player2_current_bet

\* a call that matched a raise of 40
CallMovesDeltaRaiseWitness ==
    /\ call.op = "player_action"
    /\ call.action = "Call"
    /\ result = "Ok"
    /\ ~all_in_of(game, call.caller = game.player1)
    /\ game.player1_current_bet = game.player2_current_bet
    /\ game.player1_current_bet >= 40

\* while no player is all-in or has folded, both players have the same
\* chips in the round bet and the stack together, so the amount to call
\* never exceeds the caller's stack
EqualChips ==
    game.stage \in BettingStages /\ ~game.player1_all_in /\ ~game.player2_all_in =>
        game.player1_current_bet + game.player1_stack
            = game.player2_current_bet + game.player2_stack

\* the part of the pot that is not in the two round bets
ClosedPot(g) == g.pot - g.player1_current_bet - g.player2_current_bet

\* C29: the pot is the two round bets plus the pot closed out in earlier
\* rounds: the closed part is 0 when the blinds are posted and does not
\* change while a betting round lasts, so every betting action raises the
\* pot by the amount by which it raises the actor's round bet.
PotBetConsistency ==
    [][/\ Succeeded("join_game") => ClosedPot(game') = 0
       /\ game.stage \in BettingStages /\ game'.stage = game.stage =>
              ClosedPot(game') = ClosedPot(game)
       /\ Succeeded("player_action") =>
              LET i == ActorIsPlayer1
              IN  game'.pot - game.pot
                      = current_bet_of(game', i) - current_bet_of(game, i)]_vars

\* a Raise(r) of the player to act, whose stack is smaller than the call
\* plus r
UnaffordableRaise ==
    /\ Processed("player_action")
    /\ call'.action = "Raise"
    /\ call'.amount # NoAmount
    /\ game.stage \in BettingStages
    /\ is_player_turn(game, call'.caller)
    /\ ~CallerAllIn
    /\ CallerStack < CallAmount + call'.amount

\* C30: a Raise(r) of a stack smaller than the call plus r fails with
\* InsufficientFunds and changes nothing; after a successful Raise the
\* raiser's round bet is min(b_i + call + r, b_j + s_j), so it never
\* exceeds what the opponent can match.
RaiseFeasibility ==
    [][/\ UnaffordableRaise =>
              result' = "InsufficientFunds" /\ game' = game /\ balance' = balance
       /\ SucceededAction("Raise") =>
              LET i == ActorIsPlayer1
                  b_i == current_bet_of(game, i)
                  b_j == current_bet_of(game, ~i)
                  s_j == stack_of(game, ~i)
              IN  /\ CallerStack >= CallAmount + call'.amount
                  /\ current_bet_of(game', i)
                         = Least(b_i + CallAmount + call'.amount, b_j + s_j)
                  /\ current_bet_of(game', i) <= b_j + s_j]_vars

\* a raise of 40 over an all-in opponent, recorded as the bet the opponent
\* can match
RaiseFeasibilityWitness ==
    /\ call.op = "player_action"
    /\ call.action = "Raise"
    /\ call.amount = 40
    /\ result = "Ok"
    /\ game.player1_all_in
    /\ game.player2_current_bet = game.player1_current_bet
    /\ game.player2_stack = 58

\* a raise refused for lack of chips
RaiseFeasibilityRefusedWitness ==
    /\ call.op = "player_action"
    /\ call.action = "Raise"
    /\ result = "InsufficientFunds"

(***************************************************************************)
(* advance_street, the reveal steps and the showdown                       *)
(***************************************************************************)
NoFold(g) == ~g.player1_folded /\ ~g.player2_folded

StreetAfter(stage) ==
    CASE stage = "PreFlopBetting" -> "AwaitingFlopReveal"
      [] stage = "PostFlopBetting" -> "AwaitingTurnReveal"
      [] stage = "PostTurnBetting" -> "AwaitingRiverReveal"
      [] stage = "PostRiverBetting" -> "Showdown"
      [] OTHER -> "none"

\* C31: advance_street fails with BettingRoundNotComplete and changes
\* nothing while the betting round is not complete; when it succeeds
\* without a fold it moves each betting stage to the reveal stage (or the
\* showdown) that follows it and leaves pot and stacks unchanged; in a
\* stage that is not a betting stage, with no fold, it fails with
\* InvalidGameStage.
AdvanceStreetContract ==
    [][Processed("advance_street") =>
          /\ game.stage \in BettingStages /\ ~is_betting_round_complete(game) =>
                 result' = "BettingRoundNotComplete" /\ game' = game
          /\ result' = "Ok" /\ NoFold(game) =>
                 /\ game.stage \in BettingStages
                 /\ game'.stage = StreetAfter(game.stage)
                 /\ game'.pot = game.pot
                 /\ game'.player1_stack = game.player1_stack
                 /\ game'.player2_stack = game.player2_stack
          /\ game.stage \notin BettingStages /\ NoFold(game) =>
                 result' = "InvalidGameStage" /\ game' = game]_vars

\* the part of C31 that the handler keeps: the same, with InvalidGameStage
\* only promised once the round on record is complete
AdvanceStreetContractKept ==
    [][Processed("advance_street") =>
          /\ ~is_betting_round_complete(game) =>
                 result' = "BettingRoundNotComplete" /\ game' = game
          /\ result' = "Ok" /\ NoFold(game) =>
                 /\ game.stage \in BettingStages
                 /\ game'.stage = StreetAfter(game.stage)
                 /\ game'.pot = game.pot
                 /\ game'.player1_stack = game.player1_stack
                 /\ game'.player2_stack = game.player2_stack
          /\ game.stage \notin BettingStages /\ NoFold(game)
                 /\ is_betting_round_complete(game) =>
                 result' = "InvalidGameStage" /\ game' = game]_vars

SharesOfStage(stage) == IF stage = "AwaitingFlopReveal" THEN 3 ELSE 1

Player2StageOf(stage) ==
    CASE stage = "AwaitingFlopReveal" -> "AwaitingPlayer2FlopShare"
      [] stage = "AwaitingTurnReveal" -> "AwaitingPlayer2TurnShare"
      [] stage = "AwaitingRiverReveal" -> "AwaitingPlayer2RiverShare"
      [] OTHER -> "none"

StoredPlayer1Shares(g, stage) ==
    CASE stage = "AwaitingFlopReveal" -> g.player1_flop_shares
      [] stage = "AwaitingTurnReveal" -> <<g.player1_turn_share>>
      [] stage = "AwaitingRiverReveal" -> <<g.player1_river_share>>

\* C32: in AwaitingFlopReveal, AwaitingTurnReveal and AwaitingRiverReveal a
\* caller other than player 1 gets NotYourTurn and player 1 must supply
\* exactly 3, 1 and 1 shares (otherwise MissingDecryptionShares); on
\* success the shares are stored, reveal_deadline = now + action_timeout,
\* the stage becomes the matching AwaitingPlayer2*Share, and the community
\* cards, their count, the pot, the stacks and the bets are unchanged.
RevealStepA ==
    [][Processed("reveal_community_cards") /\ game.stage \in Player1RevealStages =>
          /\ call'.caller # game.player1 => result' = "NotYourTurn"
          /\ call'.caller = game.player1
                 /\ call'.shares # SharesOfStage(game.stage) =>
                 result' = "MissingDecryptionShares"
          /\ call'.caller = game.player1
                 /\ call'.shares = SharesOfStage(game.stage) =>
                 result' = "Ok"
          /\ result' # "Ok" => game' = game
          /\ result' = "Ok" =>
                 /\ StoredPlayer1Shares(game', game.stage)
                        \in {shares \in ShareInputs : Len(shares) = call'.shares}
                 /\ game'.reveal_deadline = now + game.action_timeout
                 /\ game'.stage = Player2StageOf(game.stage)
                 /\ game'.community_cards = game.community_cards
                 /\ game'.community_cards_revealed = game.community_cards_revealed
                 /\ game'.pot = game.pot
                 /\ game'.player1_stack = game.player1_stack
                 /\ game'.player2_stack = game.player2_stack
                 /\ game'.player1_current_bet = game.player1_current_bet
                 /\ game'.player2_current_bet = game.player2_current_bet]_vars

\* player 1's turn share stored at a time after the hand's start
RevealStepAWitness ==
    /\ call.op = "reveal_community_cards"
    /\ call.caller = P1
    /\ result = "Ok"
    /\ game.stage = "AwaitingPlayer2TurnShare"
    /\ game.player1_turn_share = 71
    /\ game.reveal_deadline = now + ACTION_TIMEOUT
    /\ now > 0
    /\ game.community_cards_revealed = 3

RevealStepARefusedWitness ==
    /\ call.op = "reveal_community_cards"
    /\ call.caller = P1
    /\ result = "MissingDecryptionShares"
    /\ game.stage = "AwaitingFlopReveal"

BettingStageOf(stage) ==
    CASE stage = "AwaitingPlayer2FlopShare" -> "PostFlopBetting"
      [] stage = "AwaitingPlayer2TurnShare" -> "PostTurnBetting"
      [] stage = "AwaitingPlayer2RiverShare" -> "PostRiverBetting"
      [] OTHER -> "none"

\* the community slots (from 1) a player 2 share stage fills
SlotsOfStage(stage) ==
    CASE stage = "AwaitingPlayer2FlopShare" -> {1, 2, 3}
      [] stage = "AwaitingPlayer2TurnShare" -> {4}
      [] stage = "AwaitingPlayer2RiverShare" -> {5}
      [] OTHER -> {}

RevealedAfter(stage) ==
    CASE stage = "AwaitingPlayer2FlopShare" -> 3
      [] stage = "AwaitingPlayer2TurnShare" -> 4
      [] stage = "AwaitingPlayer2RiverShare" -> 5
      [] OTHER -> 0

RevealedOfStage(stage) ==
    CASE stage \in {"WaitingForPlayer2", "PreFlopBetting", "AwaitingFlopReveal",
                    "AwaitingPlayer2FlopShare"} -> 0
      [] stage \in {"PostFlopBetting", "AwaitingTurnReveal",
                    "AwaitingPlayer2TurnShare"} -> 3
      [] stage \in {"PostTurnBetting", "AwaitingRiverReveal",
                    "AwaitingPlayer2RiverShare"} -> 4
      [] stage \in {"PostRiverBetting", "Showdown",
                    "AwaitingPlayer2ShowdownReveal"} -> 5

\* C34: in every reachable state of a hand that is not finished, the count
\* of revealed community cards is the one of the stage: 0 up to the flop
\* reveal, 3 up to the turn reveal, 4 up to the river reveal and 5 from
\* the last betting round on.
RevealedMatchesStage ==
    Created /\ game.stage # "Finished" =>
        game.community_cards_revealed = RevealedOfStage(game.stage)

RevealedMatchesStageWitness ==
    /\ game.stage = "AwaitingPlayer2ShowdownReveal"
    /\ game.community_cards_revealed = 5
    /\ game.community_cards[5] # 0
    /\ call.op = "resolve_hand"

revealed_of(g, player) ==
    IF player = g.player1 THEN g.player1_revealed_hand ELSE g.player2_revealed_hand

CallerIsPlayer == call'.caller \in {game.player1, game.player2}

\* C35: the showdown takes two steps by two different players.  A
\* resolve_hand at Showdown by a player marks that player as revealed, sets
\* reveal_deadline = now + action_timeout and moves to
\* AwaitingPlayer2ShowdownReveal without settling; there, a resolve_hand by
\* the player who has revealed fails with AlreadyRevealedHand; a flag is
\* set only by the player it names, so the hand is settled only by the
\* second player's reveal, after the first player's.
TwoStepShowdown ==
    [][Processed("resolve_hand") =>
          /\ game.stage = "Showdown" /\ CallerIsPlayer =>
                 /\ result' = "Ok"
                 /\ revealed_of(game', call'.caller)
                 /\ ~revealed_of(game', get_other_player(game, call'.caller))
                 /\ game'.reveal_deadline = now + game.action_timeout
                 /\ game'.stage = "AwaitingPlayer2ShowdownReveal"
                 /\ balance' = balance
                 /\ game'.pot = game.pot
          /\ game.stage = "AwaitingPlayer2ShowdownReveal" /\ CallerIsPlayer
                 /\ revealed_of(game, call'.caller) =>
                 result' = "AlreadyRevealedHand" /\ game' = game /\ balance' = balance
          /\ result' = "Ok" /\ game'.player1_revealed_hand
                 /\ ~game.player1_revealed_hand => call'.caller = game.player1
          /\ result' = "Ok" /\ game'.player2_revealed_hand
                 /\ ~game.player2_revealed_hand => call'.caller = game.player2
          /\ result' = "Ok" /\ game'.stage = "Finished" =>
                 /\ CallerIsPlayer
                 /\ ~revealed_of(game, call'.caller)
                 /\ revealed_of(game, get_other_player(game, call'.caller))]_vars

\* the same, for hands in which only the two players call resolve_hand
TwoStepShowdownOfPlayers ==
    [][Processed("resolve_hand") /\ CallerIsPlayer =>
          /\ game.stage = "Showdown" =>
                 /\ result' = "Ok"
                 /\ revealed_of(game', call'.caller)
                 /\ ~revealed_of(game', get_other_player(game, call'.caller))
                 /\ game'.reveal_deadline = now + game.action_timeout
                 /\ game'.stage = "AwaitingPlayer2ShowdownReveal"
                 /\ balance' = balance
                 /\ game'.pot = game.pot
          /\ game.stage = "AwaitingPlayer2ShowdownReveal"
                 /\ revealed_of(game, call'.caller) =>
                 result' = "AlreadyRevealedHand" /\ game' = game /\ balance' = balance
          /\ result' = "Ok" /\ game'.stage = "Finished" =>
                 /\ ~revealed_of(game, call'.caller)
                 /\ game.stage = "AwaitingPlayer2ShowdownReveal"]_vars

(***************************************************************************)
(* The best five of seven cards                                            *)
(***************************************************************************)
\* seven different cards of the subdeck, lowest first and highest first,
\* and deals in which the best hand lies in the pocket, on the board or
\* across both
SevenCardDeals ==
    LET sevens == {T \in SUBSET Subdeck : Cardinality(T) = 7}
        ascending == {AscendingSeq(T) : T \in sevens}
    IN  ascending \cup {[i \in 1..7 |-> d[8 - i]] : d \in ascending}
            \cup {<<51, 50, 49, 48, 47, 0, 14>>, <<0, 14, 51, 50, 49, 48, 47>>,
                  <<12, 25, 38, 51, 3, 17, 31>>, <<5, 18, 31, 44, 6, 19, 32>>,
                  <<0, 0, 49, 48, 47, 27, 14>>}

BestInit ==
    /\ game = NoGame
    /\ balance = [p \in {P1, P2} |-> Deposit]
    /\ game_vault = 0
    /\ program_vault = 2 * Deposit
    /\ now = 0
    /\ credits = 0
    /\ call = NoCall
    /\ result = "Ok"
    /\ has_acted = {}
    /\ \E deal \in SevenCardDeals :
          probe = [fn |-> "find_best_hand",
                   args |-> <<SubSeq(deal, 1, 2), SubSeq(deal, 3, 7)>>,
                   value |-> <<>>]

FindBestHand ==
    /\ probe.fn = "find_best_hand"
    /\ probe.value = <<>>
    /\ probe' = [probe EXCEPT !.value = find_best_hand(probe.args[1], probe.args[2])]
    /\ UNCHANGED <<game, balance, game_vault, program_vault, now, credits, call,
                   result, has_acted>>

BestNext == FindBestHand

BestSpec == BestInit /\ [][BestNext]_vars

\* the five-card hands of a deal of seven, each in the order of the deal
FiveCardHands(all_cards) ==
    {[i \in 1..5 |-> all_cards[AscendingSeq(S)[i]]] :
        S \in {T \in SUBSET (1..7) : Cardinality(T) = 5}}

\* C36: for two hole cards and five community cards, find_best_hand
\* returns five of the seven cards together with their evaluate_hand
\* score, and that score is the greatest evaluate_hand score of the 21
\* five-card hands of the seven cards.
BestOfSeven ==
    probe.fn = "find_best_hand" /\ probe.value # <<>> =>
        LET hands == FiveCardHands(probe.args[1] \o probe.args[2])
            best_hand == probe.value[1]
            best_score == probe.value[2]
        IN  /\ Cardinality({T \in SUBSET (1..7) : Cardinality(T) = 5}) = 21
            /\ best_hand \in hands
            /\ best_score = evaluate_hand(best_hand)
            /\ \A hand \in hands : evaluate_hand(hand) <= best_score

\* the royal flush on the board is found behind a pocket of two low cards
BestOfSevenWitness ==
    /\ probe.fn = "find_best_hand"
    /\ probe.args = << <<0, 14>>, <<51, 50, 49, 48, 47>> >>
    /\ probe.value # <<>>
    /\ probe.value[1] = <<51, 50, 49, 48, 47>>
    /\ probe.value[2] = evaluate_hand(<<47, 48, 49, 50, 51>>)
    /\ probe.value[2] > evaluate_hand(<<0, 14, 51, 50, 49>>)

(***************************************************************************)
(* Deadlines                                                               *)
(***************************************************************************)
\* the account without the times an instruction records
Timeless(g) == [g EXCEPT !.last_action_at = 0, !.reveal_deadline = 0]

\* what each instruction other than claim_timeout would return and write
\* in the current state, for every input: <<result, account written>>.
\* For the settling resolve_hand, which records no time, the result alone.
OutcomeOf(res, written) == <<res, IF res = "Ok" THEN Timeless(written) ELSE <<>> >>

PlayerActionOutcomes ==
    [inp \in ActionInputs(game) |->
        LET res == player_action_result(game, inp[1], inp[2], inp[3])
        IN  IF res = "Ok"
            THEN OutcomeOf(res, player_action_state(game, inp[1], inp[2], inp[3]))
            ELSE OutcomeOf(res, game)]

RevealOutcomes ==
    [inp \in RevealInputs |->
        LET res == reveal_community_cards_result(game, inp[1], inp[2], inp[3])
        IN  IF res = "Ok"
            THEN OutcomeOf(res, reveal_community_cards_state(game, inp[2], inp[3]))
            ELSE OutcomeOf(res, game)]

ResolveOutcomes ==
    [player \in Signers |->
        LET res == resolve_hand_result(game, player)
        IN  IF res = "Ok" /\ game.stage = "Showdown"
            THEN OutcomeOf(res, resolve_hand_written(game, player, res))
            ELSE <<res, <<>> >>]

AdvanceOutcome ==
    LET res == advance_street_result(game)
    IN  IF res = "Ok" THEN OutcomeOf(res, advance_street_state(game))
        ELSE OutcomeOf(res, game)

\* C37: deadlines are passive.  When the clock moves on, past a deadline or
\* not, every player_action, reveal_community_cards, resolve_hand and
\* advance_street has the result and the effect it had before (the times
\* it records apart); and a call made after the deadline never fails for
\* lack of time.
PassiveDeadlines ==
    [][/\ now' # now /\ Joined =>
              /\ PlayerActionOutcomes' = PlayerActionOutcomes
              /\ RevealOutcomes' = RevealOutcomes
              /\ ResolveOutcomes' = ResolveOutcomes
              /\ AdvanceOutcome' = AdvanceOutcome
       /\ DeadlinePassed(game) /\ Joined /\ ~Processed("claim_timeout") /\ call'.op # "none"
              /\ now' = now =>
              result' # "TimeoutNotReached"]_vars

\* player 2's flop step, submitted after the reveal deadline, has opened
\* the next betting round
PassiveDeadlinesWitness ==
    /\ call.op = "reveal_community_cards"
    /\ call.caller = P2
    /\ result = "Ok"
    /\ game.stage = "PostFlopBetting"
    /\ game.reveal_deadline = ACTION_TIMEOUT
    /\ now > game.reveal_deadline
    /\ game.last_action_at = now
    /\ game.community_cards_revealed = 3

\* a call made by the player to act after the action timeout
PassiveDeadlinesBetWitness ==
    /\ call.op = "player_action"
    /\ call.action = "Call"
    /\ result = "Ok"
    /\ game.stage = "PostFlopBetting"
    /\ now = ACTION_TIMEOUT + 1
    /\ game.last_action_at = now
    /\ game.reveal_deadline = ACTION_TIMEOUT
    /\ has_acted # {}

(***************************************************************************)
(* The ledger and the vaults                                               *)
(***************************************************************************)
\* C38: the players' ledger balances together never exceed the tokens
\* held in the program vault.
LedgerSolvency == balance[P1] + balance[P2] <= program_vault

\* what the two players paid in at create_game and join_game together
TotalDebited(g) == 2 * g.stake_amount + 2 * (g.stake_amount \div 10)

\* C39: when a joined hand reaches Finished through the showdown settlement
\* or through claim_timeout, the two ledger balances are credited, together,
\* everything the players paid in: 2 * stake + 2 * (stake / 10).
NoChipsStranded ==
    [][(/\ Joined /\ game.stage # "Finished" /\ game'.stage = "Finished"
        /\ (Succeeded("resolve_hand") \/ Succeeded("claim_timeout")))
           => (balance'[P1] + balance'[P2]) - (balance[P1] + balance[P2])
                 = TotalDebited(game)]_vars

\* the round bets are matched: they are equal, or the player who has put in
\* less has no chips left to put in
BetsMatched(g) ==
    \/ g.player1_current_bet = g.player2_current_bet
    \/ g.player1_current_bet < g.player2_current_bet /\ g.player1_stack = 0
    \/ g.player2_current_bet < g.player1_current_bet /\ g.player2_stack = 0

\* C40: when advance_street succeeds from a betting stage with no fold, the
\* round bets are equal or the player with the smaller round bet has stack 0:
\* a player who has chips and faces a larger bet gets to call or fold first.
BetsMatchedAtClose ==
    [][(/\ Succeeded("advance_street")
        /\ game.stage \in BettingStages
        /\ NoFold(game)) => BetsMatched(game)]_vars

====
